---- MODULE Spec2Model ----
(***************************************************************************)
(* MQTT v3.1.1 broker: the connection threads, the packet processor, the   *)
(* threadpool jobs and the publish dispatchers of server/src/server, over  *)
(* the clients manager, the client sessions and the topic handler.         *)
(***************************************************************************)
EXTENDS Integers, Sequences, FiniteSets, TLC

\* ------------------------------------------------------------------ bounds
MaxConns == 2        \* TCP connections the listener accepts in a run
MaxPackets == 1      \* reads of all client loops in a run of Spec
MaxJobConns == 1     \* TCP connections in a run of SpecJobs
MaxJobPackets == 2   \* reads of all client loops in a run of SpecJobs
MaxOrderConns == 1   \* TCP connections in a run of SpecOrder
MaxOrderPackets == 3 \* reads of all client loops in a run of SpecOrder
MaxAckConns == 1     \* TCP connections in a run of SpecAck
MaxAckPackets == 4   \* reads of all client loops in a run of SpecAck
MaxShutdownConns == 2    \* TCP connections in a run of SpecShutdown
MaxShutdownPackets == 1  \* reads of all client loops in a run of SpecShutdown
MaxDumpConns == 1    \* TCP connections in each run of the broker in SpecDump
MaxDumpPackets == 1  \* reads of all client loops in each run of the broker in SpecDump
MaxRestoreConns == 1    \* TCP connections in each run of the broker in SpecRestore
MaxRestorePackets == 2  \* reads of all client loops in each run in SpecRestore
MaxSubsConns == 1    \* TCP connections in a run of SpecSubs
MaxSubsPackets == 2  \* reads of all client loops in a run of SpecSubs
MaxPoolConns == 1    \* TCP connections in a run of SpecPool
MaxPoolPackets == 6  \* reads of all client loops in a run of SpecPool
MaxDumps == 1        \* periodic dumps of the server loop in a run of the broker
MaxRuns == 2         \* starts of the broker process
PoolSize == 2        \* threadpool_size of Server::new
QueueCap == 3        \* jobs the pool queue holds before spawn blocks
QoSLevel1 == 1       \* QoSLevel::QoSLevel1, the cap of set_max_qos
UnackResendingFreq == 500   \* UNACK_RESENDING_FREQ, in milliseconds

Conns == 1..MaxConns
Workers == 1..PoolSize
ServerThread == 0
WorkerThread(w) == MaxConns + w
Threads == 0..(MaxConns + PoolSize)
NoConn == 0

ClientIds == {"x", "y"}
Topics == {<<"t", "a">>, <<"t", "w">>}
PubTopics == {<<"t", "a">>}
SubFilters == {<<"t", "#">>, <<"t", "a">>}
DollarSegments == {"$SYS"}
KeepAlives == {0, 1}
QoSOnWire == {0, 1, 2}
UnexpectedTypes == {"Connect", "Suback"}
RefusedCodes == {4, 5}
ConnectErrors == {"Timeout", "ProtocolViolation"}
EmptyPayload == <<>>
NoWill == [none |-> TRUE]
Wills == {[topic |-> <<"t", "w">>, payload |-> <<88>>, qos |-> 2, retain |-> FALSE, conn |-> 0]}
NoSession == [exists |-> FALSE]
NoRetained == [none |-> TRUE]
NoKeepAlive == -1
Idle == [kind |-> "idle"]
NoInfo ==
    [id |-> "", session_present |-> FALSE, takeover_last_will |-> NoWill,
     will |-> NoWill, last |-> "none", ended_on |-> "none", turns |-> 0,
     packet_id |-> 0, return_code |-> 0, gracefully |-> FALSE,
     clean_session |-> FALSE, publish_last_will |-> NoWill, sent_last_will |-> FALSE]

\* the file at the dump path: absent, or its text read as JSON
NoFile == [kind |-> "absent"]
File(text) == [kind |-> "file", text |-> text]
NotJson == [json |-> "invalid"]
JsonArray == [json |-> "array"]
JsonObject(fields) == [json |-> "object", fields |-> fields]
BadValue == [null |-> TRUE]
NoValue == [none |-> TRUE]
NotDumping ==
    [at |-> "idle", topic_handler |-> NoValue, clients_manager |-> NoValue,
     result |-> "none", ticks |-> 0]

\* a thread that runs none of the operations that take locks
NotLocking == [op |-> "none", id |-> "", at |-> 0, held |-> {}]
\* no packet handed to Connect::new
NotReturned == [returned |-> FALSE]
NotDecoding == [result |-> NotReturned]

VARIABLES
    shutdown_bool,   \* the AtomicBool of the ServerController
    server_pc,       \* position of the server_loop thread
    shutdown_info,   \* ShutdownInfo held by Server::shutdown
    pc,              \* position of each connection thread
    stream,          \* each connection's transport: none, open, eof (peer closed), closed
    info,            \* ConnectInfo, gracefully and DisconnectInfo of each thread
    idle,            \* read timeouts since last_activity of each client loop
    out,             \* packets written to each transport, in order
    sessions,        \* ClientsManager: client-id -> session
    taken_over,      \* ClientsManager: transports marked as taken over
    subscribers,     \* TopicHandler: filter -> client-id -> granted QoS (-1: none)
    retained,        \* TopicHandler: topic-name -> retained publish
    queue,           \* ThreadPool: queued jobs
    worker,          \* ThreadPool: the job each worker runs
    chan,            \* the mpsc channel of the broadcast_publish each thread runs
    nread,           \* reads done so far by all client loops
    env,             \* what the clients of this run may send
    panicked,        \* a threadpool job has panicked
    will_sent,       \* connections whose last will was handed to broadcast_publish
    dumps,           \* dumps run by the Drop of the Server
    disk,            \* the file at the dump path of the configuration
    dumping,         \* position and locals of the Server::dump that is running
    runs,            \* starts of the broker process so far
    locking,         \* the operation each thread runs and the locks it holds
    decoding         \* the bytes handed to Connect::new and what it returned

vars == <<shutdown_bool, server_pc, shutdown_info, pc, stream, info, idle, out,
          sessions, taken_over, subscribers, retained, queue, worker, chan, nread,
          env, panicked, will_sent, dumps, disk, dumping, runs, locking, decoding>>

\* ------------------------------------------------------------------ helpers
Min(a, b) == IF a < b THEN a ELSE b

Range(s) == {s[i] : i \in 1..Len(s)}

RECURSIVE SeqOfSet(_)
SeqOfSet(S) ==
    IF S = {} THEN <<>>
    ELSE LET e == CHOOSE x \in S : TRUE
         IN <<e>> \o SeqOfSet(S \ {e})

RECURSIVE Concat(_)
Concat(ss) == IF ss = <<>> THEN <<>> ELSE Head(ss) \o Concat(Tail(ss))

\* ----------------------------------------------------------------- packets
\* Publish::set_max_qos, Subscribe::set_max_qos
SetMaxQos(p, max) == [p EXCEPT !.qos = Min(p.qos, max)]

Connack(session_present, code) ==
    [type |-> "Connack", session_present |-> session_present, code |-> code]
Puback(packet_id) == [type |-> "Puback", pid |-> packet_id]
Unsuback(packet_id) == [type |-> "Unsuback", pid |-> packet_id]
PingResp == [type |-> "PingResp"]
\* Subscribe::response: one return code per filter, here the one filter
SubscribeResponse(s) == [type |-> "Suback", pid |-> s.pid, codes |-> <<s.qos>>]

\* the Publish made of a LastWill
WillPublish(w) ==
    [type |-> "Publish", topic |-> w.topic, qos |-> w.qos, pid |-> 0,
     retain |-> w.retain, dup |-> FALSE, payload |-> w.payload, sub |-> 0,
     from |-> 0, will |-> w.conn]

\* the n-th read of the run, a Publish: the payload is the byte n, the packet-id n
PublishRead(c, n, topic, qos, retain) ==
    [type |-> "Publish", topic |-> topic, qos |-> qos, pid |-> IF qos > 0 THEN n ELSE 0,
     retain |-> retain, dup |-> FALSE, payload |-> <<n>>, sub |-> 0, from |-> c,
     will |-> 0]
SubscribeRead(n, filter, qos) ==
    [type |-> "Subscribe", pid |-> n, filter |-> filter, qos |-> qos]
UnsubscribeRead(n, filter) == [type |-> "Unsubscribe", pid |-> n, filter |-> filter]

\* ------------------------------------------------------------ topic handler
\* the match relation of filters and topic-names, segment by segment
RECURSIVE MatchesFrom(_, _)
MatchesFrom(f, t) ==
    IF f = <<>> THEN t = <<>>
    ELSE IF Head(f) = "#" THEN TRUE
    ELSE IF t = <<>> THEN FALSE
    ELSE (Head(f) = "+" \/ Head(f) = Head(t)) /\ MatchesFrom(Tail(f), Tail(t))

TopicMatches(f, t) ==
    /\ ~(t # <<>> /\ f # <<>> /\ Head(t) \in DollarSegments /\ Head(f) \in {"+", "#"})
    /\ MatchesFrom(f, t)

\* the Message of one matched (client-id, granted-qos)
Message(id, granted, p) ==
    [client_id |-> id, packet |-> [p EXCEPT !.qos = Min(p.qos, granted), !.retain = FALSE]]

\* TopicHandler::publish: the messages sent on the channel, in traversal order,
\* and the retained store afterwards
TopicPublishMessages(p) ==
    LET matched == {fi \in SubFilters \X ClientIds :
                       TopicMatches(fi[1], p.topic) /\ subscribers[fi[1]][fi[2]] >= 0}
        order == SeqOfSet(matched)
    IN [i \in 1..Len(order) |->
            Message(order[i][2], subscribers[order[i][1]][order[i][2]], p)]

TopicPublishRetained(p) ==
    IF ~p.retain THEN retained
    ELSE IF p.payload = EmptyPayload THEN [retained EXCEPT ![p.topic] = NoRetained]
    ELSE [retained EXCEPT ![p.topic] = p]

\* TopicHandler::subscribe: the subscribers afterwards and the retained messages
TopicSubscribe(sub, id) == [subscribers EXCEPT ![sub.filter][id] = sub.qos]

TopicSubscribeRetained(sub) ==
    LET hit == {t \in Topics : retained[t] # NoRetained /\ TopicMatches(sub.filter, t)}
        order == SeqOfSet(hit)
    IN [i \in 1..Len(order) |->
            [retained[order[i]] EXCEPT !.qos = Min(@, sub.qos), !.retain = TRUE,
                                          !.sub = sub.pid]]

\* TopicHandler::unsubscribe
TopicUnsubscribe(unsub, id) == [subscribers EXCEPT ![unsub.filter][id] = -1]

\* TopicHandler::remove_client
TopicRemoveClient(subs, id) == [f \in SubFilters |-> [subs[f] EXCEPT ![id] = -1]]

RECURSIVE TopicRemoveClients(_, _)
TopicRemoveClients(subs, ids) ==
    IF ids = {} THEN subs
    ELSE LET id == CHOOSE x \in ids : TRUE
         IN TopicRemoveClients(TopicRemoveClient(subs, id), ids \ {id})

\* ------------------------------------------------------------ client session
\* keep_alive of a session, in milliseconds: 0 is no timeout, otherwise 1.5 times
\* the declared seconds
SessionKeepAlive(k) == IF k = 0 THEN NoKeepAlive ELSE (3 * k * 1000) \div 2

\* the read timeout of the transport of a session: its keep-alive, or the resend
\* period when it has none
SessionReadTimeout(s) ==
    IF s.keep_alive = NoKeepAlive THEN UnackResendingFreq ELSE s.keep_alive

NewSessionState(c, connect) ==
    [exists |-> TRUE, connected |-> TRUE, transport |-> c,
     clean_session |-> connect.clean_session, keep_alive |-> SessionKeepAlive(connect.keep_alive),
     last_will |-> connect.last_will, inflight |-> <<>>, next_packet_id |-> 1]

\* a session can write when it holds a transport the peer has not closed
CanWrite(id) ==
    /\ sessions[id] # NoSession
    /\ sessions[id].connected
    /\ stream[sessions[id].transport] = "open"

\* Session::send_packet: the transports after writing pkt to the session of id
SendPacketOut(id, pkt) ==
    [out EXCEPT ![sessions[id].transport] = Append(@, pkt)]

\* Session::send_publish: packet-id assigned and inflight entry made when qos > 0
SendPublishPacket(id, p) ==
    [p EXCEPT !.pid = IF p.qos > 0 THEN sessions[id].next_packet_id ELSE 0, !.dup = FALSE]

SendPublishSession(s, p) ==
    IF p.qos > 0
    THEN [s EXCEPT !.inflight = Append(@, [p EXCEPT !.pid = s.next_packet_id, !.dup = FALSE]),
                   !.next_packet_id = (s.next_packet_id % 65535) + 1]
    ELSE s

\* Session::send_publish of a sequence of packets, one after the other
RECURSIVE SendAllSession(_, _)
SendAllSession(s, ps) ==
    IF ps = <<>> THEN s ELSE SendAllSession(SendPublishSession(s, Head(ps)), Tail(ps))

RECURSIVE SendAllPackets(_, _)
SendAllPackets(s, ps) ==
    IF ps = <<>> THEN <<>>
    ELSE <<[Head(ps) EXCEPT !.pid = IF Head(ps).qos > 0 THEN s.next_packet_id ELSE 0,
                            !.dup = FALSE]>>
         \o SendAllPackets(SendPublishSession(s, Head(ps)), Tail(ps))

\* an acknowledge that leaves the inflight queue as it is
AcknowledgeNone(s, pid) == s

\* Session::acknowledge: the inflight queue without the entry of the packet-id
InflightIds(s) == IF s = NoSession THEN {} ELSE {s.inflight[i].pid : i \in 1..Len(s.inflight)}
Acknowledge(s, pid) ==
    [s EXCEPT !.inflight = SelectSeq(@, LAMBDA e : e.pid # pid)]

\* Session::send_unacknowledged: the inflight publishes rewritten with dup set
Unacknowledged(s, old) ==
    IF old THEN [i \in 1..Len(s.inflight) |-> [s.inflight[i] EXCEPT !.dup = TRUE]] ELSE <<>>

\* ---------------------------------------------------------- clients manager
\* ClientsManager::new_session
NewSessionTakeover(id) == sessions[id] # NoSession /\ sessions[id].connected
NewSessionPresent(id, connect) ==
    sessions[id] # NoSession /\ ~sessions[id].clean_session /\ ~connect.clean_session
NewSessionLastWill(id) ==
    IF NewSessionTakeover(id) /\ ~sessions[id].clean_session
    THEN sessions[id].last_will ELSE NoWill
NewSessionSessions(c, id, connect) ==
    [sessions EXCEPT ![id] =
        IF NewSessionPresent(id, connect)
        THEN [NewSessionState(c, connect) EXCEPT !.inflight = sessions[id].inflight,
                                                 !.next_packet_id = sessions[id].next_packet_id]
        ELSE NewSessionState(c, connect)]

\* ClientsManager::disconnect: the transport is no longer the one of the session
\* when it was taken over, or detached by a shutdown
DisconnectStale(id, c) ==
    c \in taken_over \/ (sessions[id] # NoSession /\ sessions[id].transport # c)
DisconnectFound(id, c) == c \in taken_over \/ sessions[id] # NoSession
DisconnectLastWill(id, c, gracefully) ==
    IF DisconnectStale(id, c) \/ gracefully THEN NoWill ELSE sessions[id].last_will
DisconnectClean(id, c) == ~DisconnectStale(id, c) /\ sessions[id].clean_session
DisconnectSessions(id, c) ==
    IF DisconnectStale(id, c) THEN sessions
    ELSE IF sessions[id].clean_session THEN [sessions EXCEPT ![id] = NoSession]
    ELSE [sessions EXCEPT ![id] = [@ EXCEPT !.connected = FALSE, !.transport = NoConn,
                                             !.last_will = NoWill]]

\* ClientsManager::shutdown
Connected == {id \in ClientIds : sessions[id] # NoSession /\ sessions[id].connected}
ShutdownInfo(publish_lwt) ==
    [clean_session_ids |-> {id \in Connected : sessions[id].clean_session},
     last_will_packets |->
        IF publish_lwt
        THEN SeqOfSet({<<id, sessions[id].last_will>> : id \in
                          {i \in Connected : sessions[i].last_will # NoWill}})
        ELSE <<>>]
ShutdownSessions ==
    [id \in ClientIds |->
        IF id \notin Connected THEN sessions[id]
        ELSE IF sessions[id].clean_session THEN NoSession
        ELSE [sessions[id] EXCEPT !.connected = FALSE, !.transport = NoConn]]
ShutdownStreams ==
    [c \in Conns |->
        IF \E id \in Connected : sessions[id].transport = c THEN "closed" ELSE stream[c]]

\* --------------------------------------------------------------------- Init
InitState(e, at, file, packet) ==
    /\ env = e
    /\ shutdown_bool = FALSE
    /\ server_pc = at
    /\ shutdown_info = [clean_session_ids |-> {}, last_will_packets |-> <<>>]
    /\ pc = [c \in Conns |-> "none"]
    /\ stream = [c \in Conns |-> "none"]
    /\ info = [c \in Conns |-> NoInfo]
    /\ idle = [c \in Conns |-> 0]
    /\ out = [c \in Conns |-> <<>>]
    /\ sessions = [id \in ClientIds |-> NoSession]
    /\ taken_over = {}
    /\ subscribers = [f \in SubFilters |-> [id \in ClientIds |-> -1]]
    /\ retained = [t \in Topics |-> NoRetained]
    /\ queue = <<>>
    /\ worker = [w \in Workers |-> Idle]
    /\ chan = [t \in Threads |-> <<>>]
    /\ nread = 0
    /\ panicked = FALSE
    /\ will_sent = {}
    /\ dumps = 0
    /\ disk = file
    /\ dumping = NotDumping
    /\ runs = 1
    /\ locking = [t \in Threads |-> NotLocking]
    /\ decoding = packet

InitAt(e, at, file) == InitState(e, at, file, NotDecoding)

\* the state after Server::new built a blank server
InitWith(e) == InitAt(e, "accept", NoFile)

\* the locals of a connection thread end with it
Locals(c, at, i) == IF at = "done" THEN [i EXCEPT ![c] = NoInfo] ELSE i

\* the unchanged parts of the state, by component
env_vars == <<env, locking, decoding>>
run_vars == <<env_vars, disk, dumping, runs>>
server_vars == <<shutdown_bool, server_pc, shutdown_info, run_vars, will_sent, dumps>>
broker_vars == <<shutdown_bool, shutdown_info, will_sent, dumps, pc, stream, info, idle, out,
                 sessions, taken_over, subscribers, retained, queue, worker, panicked,
                 chan, nread>>
manager_vars == <<sessions, taken_over>>
topic_vars == <<subscribers, retained>>
pool_vars == <<queue, worker, panicked>>

\* Server::broadcast_publish up to the join: the topic handler publishes on the
\* channel of the calling thread
BroadcastPublish(t, publish) ==
    /\ chan' = [chan EXCEPT ![t] = @ \o TopicPublishMessages(publish)]
    /\ retained' = TopicPublishRetained(publish)

\* the Publish Server::send_last_will hands to broadcast_publish
LastWillPublish(last_will) == SetMaxQos(WillPublish(last_will), QoSLevel1)

\* ------------------------------------------------------- connection threads
\* Server::accept_client and run_client: the server loop accepts a connection
\* and spawns its thread
AcceptClient(c) ==
    /\ server_pc = "accept"
    /\ dumping.at = "idle"
    /\ pc[c] = "none"
    /\ c <= env.conns
    /\ \A d \in Conns : d < c => pc[d] # "none"
    /\ pc' = [pc EXCEPT ![c] = "connect"]
    /\ stream' = [stream EXCEPT ![c] = "open"]
    /\ UNCHANGED <<server_vars, info, idle, out, manager_vars, topic_vars, pool_vars,
                   chan, nread>>

\* the first connection of a run is the one of client x
ConnIds(c) == IF c = 1 THEN {"x"} ELSE ClientIds

\* every connection hands the transport of the first one to the clients manager
NetworkConnectionFirst(c) == 1

\* Server::connect_client: the transport handed to new_session is a clone of the
\* one of the connection
NetworkConnection(c) == c

\* Server::connect_client with a Connect the clients manager accepts
ConnectClient(c) ==
    /\ pc[c] = "connect"
    /\ stream[c] = "open"
    /\ \E id \in ConnIds(c), clean \in env.clean, will \in env.wills,
          ka \in env.keep_alives :
        LET connect == [client_id |-> id, clean_session |-> clean, keep_alive |-> ka,
                        last_will |-> IF will = NoWill THEN NoWill
                                      ELSE [will EXCEPT !.conn = c]]
            present == NewSessionPresent(id, connect)
        IN /\ info' = [info EXCEPT ![c] =
                          [NoInfo EXCEPT !.id = id, !.session_present = present,
                                         !.takeover_last_will = NewSessionLastWill(id),
                                         !.will = connect.last_will]]
           /\ sessions' = NewSessionSessions(NetworkConnection(c), id, connect)
           /\ taken_over' = IF NewSessionTakeover(id)
                            THEN taken_over \cup {sessions[id].transport} ELSE taken_over
           /\ stream' = IF NewSessionTakeover(id)
                        THEN [stream EXCEPT ![sessions[id].transport] = "closed"]
                        ELSE stream
           /\ subscribers' = IF present /\ clean THEN TopicRemoveClient(subscribers, id)
                             ELSE subscribers
    /\ pc' = [pc EXCEPT ![c] = "connack"]
    /\ UNCHANGED <<server_vars, idle, out, retained, pool_vars, chan, nread>>

\* Server::connect_client refused by the clients manager: an error of kind
\* ConnectionRefused with the return code
ConnectRefused(c) ==
    /\ pc[c] = "connect"
    /\ stream[c] = "open"
    /\ \E code \in RefusedCodes :
          info' = [info EXCEPT ![c] = [NoInfo EXCEPT !.last = "ConnectionRefused",
                                                     !.return_code = code]]
    /\ pc' = [pc EXCEPT ![c] = "failed"]
    /\ UNCHANGED <<server_vars, stream, idle, out, manager_vars, topic_vars, pool_vars,
                   chan, nread>>

\* a failed Connect that leaves a session behind in the clients manager
ConnectFailedRegistered(c) ==
    /\ pc[c] = "connect"
    /\ info' = [info EXCEPT ![c] = [NoInfo EXCEPT !.last = "Timeout"]]
    /\ sessions' = [sessions EXCEPT !["x"] =
                        NewSessionState(c, [clean_session |-> TRUE, keep_alive |-> 0,
                                            last_will |-> NoWill])]
    /\ pc' = [pc EXCEPT ![c] = "failed"]
    /\ UNCHANGED <<server_vars, stream, idle, out, taken_over, topic_vars, pool_vars,
                   chan, nread>>

\* Server::connect_client failing in wait_for_connect: the read timed out, or
\* what was read is not a Connect
ConnectFailed(c) ==
    /\ pc[c] = "connect"
    /\ \E kind \in ConnectErrors :
          info' = [info EXCEPT ![c] = [NoInfo EXCEPT !.last = kind]]
    /\ pc' = [pc EXCEPT ![c] = "failed"]
    /\ UNCHANGED <<server_vars, stream, idle, out, manager_vars, topic_vars, pool_vars,
                   chan, nread>>

\* a Connack of a refused connection that says the session is present
RefusedConnackPresent(return_code) == Connack(TRUE, return_code)

\* Server::manage_failed_connection: the Connack of a refused connection
RefusedConnack(return_code) == Connack(FALSE, return_code)

\* a failed connection whose error goes on to the server loop and ends it
ManageFailedConnectionFatal(c) ==
    /\ pc[c] = "failed"
    /\ out' = IF info[c].last = "ConnectionRefused" /\ stream[c] = "open"
              THEN [out EXCEPT ![c] = Append(@, RefusedConnack(info[c].return_code))]
              ELSE out
    /\ pc' = [pc EXCEPT ![c] = "done"]
    /\ info' = Locals(c, "done", info)
    /\ stream' = [stream EXCEPT ![c] = "closed"]
    /\ server_pc' = "join"
    /\ UNCHANGED <<shutdown_bool, shutdown_info, run_vars, will_sent, dumps, idle,
                   manager_vars, topic_vars, pool_vars, chan, nread>>

\* Server::manage_failed_connection: the Connack when the error is of kind
\* ConnectionRefused, no Connack otherwise; the thread ends
ManageFailedConnection(c) ==
    /\ pc[c] = "failed"
    /\ out' = IF info[c].last = "ConnectionRefused" /\ stream[c] = "open"
              THEN [out EXCEPT ![c] = Append(@, RefusedConnack(info[c].return_code))]
              ELSE out
    /\ pc' = [pc EXCEPT ![c] = "done"]
    /\ info' = Locals(c, "done", info)
    /\ stream' = [stream EXCEPT ![c] = "closed"]
    /\ UNCHANGED <<server_vars, idle, manager_vars, topic_vars, pool_vars, chan, nread>>

\* a Connack that never says the session is present
AcceptedConnackFresh(connect_info) == Connack(FALSE, 0)

\* Server::manage_successful_connection: the Connack of an accepted connection
AcceptedConnack(connect_info) == Connack(connect_info.session_present, 0)

\* Server::manage_successful_connection: the Connack, whose failure ends the thread
SendConnack(c) ==
    /\ pc[c] = "connack"
    /\ IF stream[c] = "open"
       THEN /\ out' = [out EXCEPT ![c] = Append(@, AcceptedConnack(info[c]))]
            /\ pc' = [pc EXCEPT ![c] = IF info[c].takeover_last_will # NoWill
                                       THEN "takeover_will" ELSE "loop"]
       ELSE /\ pc' = [pc EXCEPT ![c] = "done"]
            /\ UNCHANGED out
    /\ info' = Locals(c, pc'[c], info)
    /\ UNCHANGED <<server_vars, stream, idle, manager_vars, topic_vars, pool_vars,
                   chan, nread>>

\* Server::manage_successful_connection: the last will of the taken-over session
TakeoverLastWill(c) ==
    /\ pc[c] = "takeover_will"
    /\ BroadcastPublish(c, LastWillPublish(info[c].takeover_last_will))
    /\ will_sent' = will_sent \cup {info[c].takeover_last_will.conn}
    /\ pc' = [pc EXCEPT ![c] = "takeover_join"]
    /\ UNCHANGED <<shutdown_bool, server_pc, shutdown_info, run_vars, dumps, stream, info, idle,
                   out, manager_vars, subscribers, pool_vars, nread>>

\* Server::broadcast_publish: the join of the dispatcher thread
JoinDispatcher(c) ==
    /\ pc[c] \in {"takeover_join", "will_join"}
    /\ chan[c] = <<>>
    /\ pc' = [pc EXCEPT ![c] = IF pc[c] = "takeover_join" THEN "loop" ELSE "done"]
    /\ info' = Locals(c, pc'[c], info)
    /\ UNCHANGED <<server_vars, stream, idle, out, manager_vars, topic_vars,
                   pool_vars, chan, nread>>

\* ------------------------------------------------------------- client loop
\* a client loop that returns true whatever ends it
GracefullyAlways(packet_type) == TRUE

\* Server::client_loop: what the loop returns for the read that ends it
Gracefully(packet_type) == packet_type = "Disconnect"

\* the loop ends on a packet of a type: manage_successful_connection goes on to
\* disconnect the client
EndLoopOn(c, packet_type, packet_id, cause) ==
    /\ pc' = [pc EXCEPT ![c] = "disconnect"]
    /\ info' = [info EXCEPT ![c].last = cause, ![c].ended_on = packet_type,
                             ![c].packet_id = packet_id, ![c].turns = @ + 1,
                             ![c].gracefully = Gracefully(cause)]

\* the loop ends on a read that gave no packet, or on a Disconnect
EndLoop(c, cause) == EndLoopOn(c, "none", 0, cause)

CanRead(c) == pc[c] = "loop" /\ stream[c] = "open" /\ nread < env.packets

Read == nread' = nread + 1

\* Server::client_loop: the packet, with its packet-id, was processed, the loop
\* goes on
ContinueOn(c, packet_type, packet_id) ==
    /\ info' = [info EXCEPT ![c].last = packet_type, ![c].packet_id = packet_id,
                             ![c].turns = @ + 1]
    /\ idle' = [idle EXCEPT ![c] = 0]
    /\ UNCHANGED pc

Continue(c, packet_type) == ContinueOn(c, packet_type, 0)

\* Server::to_threadpool: the job enters the queue of the pool
ToThreadpool(kind, c, packet) ==
    /\ Len(queue) < QueueCap
    /\ queue' = Append(queue, [kind |-> kind, id |-> info[c].id, packet |-> packet,
                               pc |-> "start"])

\* process_packet_given_control_byte, PacketType::Publish
ReadPublish(c) ==
    /\ CanRead(c)
    /\ \E topic \in PubTopics, qos \in env.qos, retain \in env.retain :
        LET publish == PublishRead(c, nread + 1, topic, qos, retain)
        IN Read /\ ToThreadpool("publish", c, publish)
    /\ Continue(c, "Publish")
    /\ UNCHANGED <<server_vars, stream, out, manager_vars, topic_vars, worker, panicked,
                   chan>>

\* process_packet_given_control_byte, PacketType::Subscribe
ReadSubscribe(c) ==
    /\ CanRead(c)
    /\ \E filter \in env.filters, qos \in env.qos :
        LET subscribe == SubscribeRead(nread + 1, filter, qos)
        IN Read /\ ToThreadpool("subscribe", c, subscribe)
    /\ Continue(c, "Subscribe")
    /\ UNCHANGED <<server_vars, stream, out, manager_vars, topic_vars, worker, panicked,
                   chan>>

\* process_packet_given_control_byte, PacketType::Unsubscribe
ReadUnsubscribe(c) ==
    /\ CanRead(c)
    /\ \E filter \in env.filters :
        LET unsubscribe == UnsubscribeRead(nread + 1, filter)
        IN Read /\ ToThreadpool("unsubscribe", c, unsubscribe)
    /\ Continue(c, "Unsubscribe")
    /\ UNCHANGED <<server_vars, stream, out, manager_vars, topic_vars, worker, panicked,
                   chan>>

\* process_packet_given_control_byte, PacketType::Puback: acknowledge on the
\* connection thread; a packet-id that is not inflight is an error
ReadPuback(c) ==
    /\ CanRead(c)
    /\ LET id == info[c].id
       IN \E pid \in InflightIds(sessions[id]) \cup {0} :
            /\ Read
            /\ IF pid \in InflightIds(sessions[id])
               THEN /\ sessions' = [sessions EXCEPT ![id] = Acknowledge(@, pid)]
                    /\ ContinueOn(c, "Puback", pid)
               ELSE /\ EndLoopOn(c, "Puback", pid, "ProtocolViolation")
                    /\ UNCHANGED <<sessions, idle>>
    /\ UNCHANGED <<server_vars, stream, out, taken_over, topic_vars, pool_vars, chan>>

\* a PingReq that is read and not answered
ReadPingReqSilent(c) ==
    /\ CanRead(c)
    /\ Read
    /\ Continue(c, "PingReq")
    /\ UNCHANGED <<server_vars, stream, out, manager_vars, topic_vars, pool_vars, chan>>

\* process_packet_given_control_byte, PacketType::PingReq: the PingResp is
\* written on the connection thread
ReadPingReq(c) ==
    /\ CanRead(c)
    /\ Read
    /\ IF CanWrite(info[c].id)
       THEN /\ out' = SendPacketOut(info[c].id, PingResp)
            /\ Continue(c, "PingReq")
       ELSE /\ EndLoop(c, "ClientNotFound")
            /\ UNCHANGED <<out, idle>>
    /\ UNCHANGED <<server_vars, stream, manager_vars, topic_vars, pool_vars, chan>>

\* process_packet_given_control_byte, PacketType::Disconnect
ReadDisconnect(c) ==
    /\ CanRead(c)
    /\ Read
    /\ EndLoop(c, "Disconnect")
    /\ UNCHANGED <<server_vars, stream, idle, out, manager_vars, topic_vars, pool_vars, chan>>

\* an unexpected packet that is skipped: the loop goes on to the next read
ReadInvalidSkipped(c) ==
    /\ CanRead(c)
    /\ Read
    /\ \E packet_type \in UnexpectedTypes : Continue(c, packet_type)
    /\ UNCHANGED <<server_vars, stream, out, manager_vars, topic_vars, pool_vars, chan>>

\* process_packet_given_control_byte: any other packet type
ReadInvalid(c) ==
    /\ CanRead(c)
    /\ Read
    /\ \E packet_type \in UnexpectedTypes : EndLoopOn(c, packet_type, 0, "ProtocolViolation")
    /\ UNCHANGED <<server_vars, stream, idle, out, manager_vars, topic_vars, pool_vars, chan>>

\* Server::process_packet: the read fails, the peer or the broker has closed
ReadEof(c) ==
    /\ pc[c] = "loop"
    /\ stream[c] \in {"open", "closed"}
    /\ stream' = [stream EXCEPT ![c] = IF @ = "open" THEN "eof" ELSE @]
    /\ EndLoop(c, "ClientDisconnected")
    /\ UNCHANGED <<server_vars, idle, out, manager_vars, topic_vars, pool_vars, chan, nread>>

\* a keep-alive check that finds every client expired
KeepAliveExpiredAlways(keep_alive, timeouts) == TRUE

\* Server::client_loop, ServerErrorKind::Timeout: send_unacknowledged, then the
\* keep-alive check
\* the time since last_activity is more than the read timeouts it holds
KeepAliveExpired(keep_alive, timeouts) == keep_alive # NoKeepAlive /\ timeouts >= keep_alive

ReadTimeout(c) ==
    /\ CanRead(c)
    /\ Read
    /\ LET s == sessions[info[c].id]
       IN IF s = NoSession
          THEN EndLoop(c, "ClientNotFound") /\ UNCHANGED <<out, idle>>
          ELSE /\ \E old \in BOOLEAN :
                     out' = [out EXCEPT ![c] = @ \o Unacknowledged(s, old)]
               /\ idle' = [idle EXCEPT ![c] = @ + 1]
               /\ IF KeepAliveExpired(s.keep_alive, (idle[c] + 1) * SessionReadTimeout(s))
                  THEN EndLoop(c, "KeepAlive")
                  ELSE /\ info' = [info EXCEPT ![c].last = "Timeout", ![c].turns = @ + 1]
                       /\ UNCHANGED pc
    /\ UNCHANGED <<server_vars, stream, manager_vars, topic_vars, pool_vars, chan>>

\* ---------------------------------------------------------- disconnecting
\* manage_successful_connection: ClientsManager::disconnect, which consumes the
\* transport; an error ends the thread
\* a disconnect step that looks the session up by its id alone
DisconnectClientById(c) ==
    /\ pc[c] = "disconnect"
    /\ LET id == info[c].id
           g == info[c].gracefully
       IN IF sessions[id] # NoSession
          THEN /\ sessions' =
                    IF sessions[id].clean_session THEN [sessions EXCEPT ![id] = NoSession]
                    ELSE [sessions EXCEPT ![id] = [@ EXCEPT !.connected = FALSE,
                                                            !.transport = NoConn,
                                                            !.last_will = NoWill]]
               /\ taken_over' = taken_over \ {c}
               /\ pc' = [pc EXCEPT ![c] =
                             IF sessions[id].clean_session THEN "remove_client"
                             ELSE IF ~g /\ sessions[id].last_will # NoWill THEN "last_will"
                             ELSE "done"]
               /\ info' = Locals(c, pc'[c],
                              [info EXCEPT ![c].clean_session = sessions[id].clean_session,
                                           ![c].publish_last_will =
                                               IF g THEN NoWill ELSE sessions[id].last_will])
          ELSE /\ pc' = [pc EXCEPT ![c] = "done"]
               /\ info' = Locals(c, "done", info)
               /\ UNCHANGED <<sessions, taken_over>>
    /\ stream' = [stream EXCEPT ![c] = "closed"]
    /\ UNCHANGED <<server_vars, idle, out, topic_vars, pool_vars, chan, nread>>

DisconnectClient(c) ==
    /\ pc[c] = "disconnect"
    /\ LET id == info[c].id
           g == info[c].gracefully
       IN IF DisconnectFound(id, c)
          THEN /\ sessions' = DisconnectSessions(id, c)
               /\ taken_over' = taken_over \ {c}
               /\ pc' = [pc EXCEPT ![c] =
                             IF DisconnectClean(id, c) THEN "remove_client"
                             ELSE IF DisconnectLastWill(id, c, g) # NoWill THEN "last_will"
                             ELSE "done"]
               /\ info' = Locals(c, pc'[c],
                              [info EXCEPT ![c].clean_session = DisconnectClean(id, c),
                                           ![c].publish_last_will =
                                               DisconnectLastWill(id, c, g)])
          ELSE /\ pc' = [pc EXCEPT ![c] = "done"]
               /\ info' = Locals(c, "done", info)
               /\ UNCHANGED <<sessions, taken_over>>
    /\ stream' = [stream EXCEPT ![c] = "closed"]
    /\ UNCHANGED <<server_vars, idle, out, topic_vars, pool_vars, chan, nread>>

\* manage_successful_connection: remove_client when the session was clean
RemoveClient(c) ==
    /\ pc[c] = "remove_client"
    /\ subscribers' = TopicRemoveClient(subscribers, info[c].id)
    /\ pc' = [pc EXCEPT ![c] = IF info[c].publish_last_will # NoWill
                               THEN "last_will" ELSE "done"]
    /\ info' = Locals(c, pc'[c], info)
    /\ UNCHANGED <<server_vars, stream, idle, out, manager_vars, retained,
                   pool_vars, chan, nread>>

\* manage_successful_connection: send_last_will of the disconnected client
SendLastWill(c) ==
    /\ pc[c] = "last_will"
    /\ BroadcastPublish(c, LastWillPublish(info[c].publish_last_will))
    /\ info' = [info EXCEPT ![c].sent_last_will = TRUE]
    /\ will_sent' = will_sent \cup {info[c].publish_last_will.conn}
    /\ pc' = [pc EXCEPT ![c] = "will_join"]
    /\ UNCHANGED <<shutdown_bool, server_pc, shutdown_info, run_vars, dumps, stream, idle, out,
                   manager_vars, subscribers, pool_vars, nread>>

\* --------------------------------------------------------------- threadpool
\* a worker of the pool takes the next job of the queue
WorkerTake(w) ==
    /\ worker[w] = Idle
    /\ \A v \in Workers : v < w => worker[v] # Idle
    /\ queue # <<>>
    /\ worker' = [worker EXCEPT ![w] = Head(queue)]
    /\ queue' = Tail(queue)
    /\ UNCHANGED <<server_vars, pc, stream, info, idle, out, manager_vars, topic_vars,
                   panicked, chan, nread>>

Running(w, kind, at) == worker[w] # Idle /\ worker[w].kind = kind /\ worker[w].pc = at

\* a publish that keeps the qos it came with
PublishUncapped(publish) == publish

\* Server::handle_publish: the qos cap and the Puback of a publish with packet-id
PublishCapped(publish) == SetMaxQos(publish, QoSLevel1)
\* a Puback that leaves the packet-id out
PublishAckNoId(publish) == Puback(0)

PublishAck(publish) == Puback(publish.pid)
PublishNeedsAck(publish) == publish.pid # 0

HandlePublish(w) ==
    /\ Running(w, "publish", "start")
    /\ LET publish == PublishCapped(worker[w].packet)
           id == worker[w].id
       IN IF ~PublishNeedsAck(publish)
          THEN /\ worker' = [worker EXCEPT ![w].packet = publish, ![w].pc = "broadcast"]
               /\ UNCHANGED out
          ELSE IF CanWrite(id)
          THEN /\ out' = SendPacketOut(id, PublishAck(publish))
               /\ worker' = [worker EXCEPT ![w].packet = publish, ![w].pc = "broadcast"]
          ELSE /\ worker' = [worker EXCEPT ![w] = Idle]
               /\ UNCHANGED out
    /\ UNCHANGED <<server_vars, pc, stream, info, idle, manager_vars, topic_vars, queue,
                   panicked, chan, nread>>

\* Server::handle_publish: broadcast_publish
HandlePublishBroadcast(w) ==
    /\ Running(w, "publish", "broadcast")
    /\ BroadcastPublish(WorkerThread(w), worker[w].packet)
    /\ worker' = [worker EXCEPT ![w].pc = "join"]
    /\ UNCHANGED <<server_vars, pc, stream, info, idle, out, manager_vars, subscribers,
                   queue, panicked, nread>>

\* Server::broadcast_publish: the worker joins its dispatcher thread
HandlePublishJoin(w) ==
    /\ Running(w, "publish", "join")
    /\ chan[WorkerThread(w)] = <<>>
    /\ worker' = [worker EXCEPT ![w] = Idle]
    /\ UNCHANGED <<server_vars, pc, stream, info, idle, out, manager_vars, topic_vars,
                   queue, panicked, chan, nread>>

\* Server::handle_subscribe: the qos cap and the Suback
SubscribeCapped(subscribe) == SetMaxQos(subscribe, QoSLevel1)

\* a handle_subscribe that goes on to the topic handler without the Suback
HandleSubscribeNoAck(w) ==
    /\ Running(w, "subscribe", "start")
    /\ worker' = [worker EXCEPT ![w].packet = SubscribeCapped(@), ![w].pc = "subscribe"]
    /\ UNCHANGED <<server_vars, pc, stream, info, idle, out, manager_vars, topic_vars,
                   queue, panicked, chan, nread>>

HandleSubscribe(w) ==
    /\ Running(w, "subscribe", "start")
    /\ LET subscribe == SubscribeCapped(worker[w].packet)
           id == worker[w].id
       IN IF CanWrite(id)
          THEN /\ out' = SendPacketOut(id, SubscribeResponse(subscribe))
               /\ worker' = [worker EXCEPT ![w].packet = subscribe, ![w].pc = "subscribe"]
          ELSE /\ worker' = [worker EXCEPT ![w] = Idle]
               /\ UNCHANGED out
    /\ UNCHANGED <<server_vars, pc, stream, info, idle, manager_vars, topic_vars, queue,
                   panicked, chan, nread>>

\* Server::handle_subscribe: TopicHandler::subscribe, which returns the retained
\* messages the filters match
HandleSubscribeInstall(w) ==
    /\ Running(w, "subscribe", "subscribe")
    /\ subscribers' = TopicSubscribe(worker[w].packet, worker[w].id)
    /\ LET retained_messages == TopicSubscribeRetained(worker[w].packet)
       IN worker' = [worker EXCEPT ![w] =
                        IF retained_messages = <<>> THEN Idle
                        ELSE [worker[w] EXCEPT !.pc = "retained"]
                                 @@ [retained_messages |-> retained_messages]]
    /\ UNCHANGED <<server_vars, pc, stream, info, idle, out, manager_vars, retained,
                   queue, panicked, chan, nread>>

\* Server::handle_subscribe: the retained messages are sent to the subscriber
HandleSubscribeRetained(w) ==
    /\ Running(w, "subscribe", "retained")
    /\ LET id == worker[w].id
           ms == worker[w].retained_messages
       IN IF sessions[id] = NoSession
          THEN UNCHANGED <<out, sessions>>
          ELSE /\ sessions' = [sessions EXCEPT ![id] = SendAllSession(@, ms)]
               /\ out' = IF CanWrite(id)
                         THEN [out EXCEPT ![sessions[id].transport] =
                                  @ \o SendAllPackets(sessions[id], ms)]
                         ELSE out
    /\ worker' = [worker EXCEPT ![w] = Idle]
    /\ UNCHANGED <<server_vars, pc, stream, info, idle, taken_over, topic_vars, queue,
                   panicked, chan, nread>>

\* a handle_unsubscribe that leaves the topic handler as it is
HandleUnsubscribeKeep(w) ==
    /\ Running(w, "unsubscribe", "start")
    /\ worker' = [worker EXCEPT ![w].pc = "unsuback"]
    /\ UNCHANGED <<server_vars, pc, stream, info, idle, out, manager_vars, topic_vars,
                   queue, panicked, chan, nread>>

\* Server::handle_unsubscribe: TopicHandler::unsubscribe
HandleUnsubscribe(w) ==
    /\ Running(w, "unsubscribe", "start")
    /\ subscribers' = TopicUnsubscribe(worker[w].packet, worker[w].id)
    /\ worker' = [worker EXCEPT ![w].pc = "unsuback"]
    /\ UNCHANGED <<server_vars, pc, stream, info, idle, out, manager_vars, retained,
                   queue, panicked, chan, nread>>

\* Server::handle_unsubscribe: the Unsuback
UnsubscribeAck(unsubscribe) == Unsuback(unsubscribe.pid)

HandleUnsuback(w) ==
    /\ Running(w, "unsubscribe", "unsuback")
    /\ IF CanWrite(worker[w].id)
       THEN out' = SendPacketOut(worker[w].id, UnsubscribeAck(worker[w].packet))
       ELSE UNCHANGED out
    /\ worker' = [worker EXCEPT ![w] = Idle]
    /\ UNCHANGED <<server_vars, pc, stream, info, idle, manager_vars, topic_vars, queue,
                   panicked, chan, nread>>

\* Server::publish_dispatcher_loop: the dispatcher thread of a broadcast takes
\* the next message of its channel and spawns the job that sends it
PublishDispatch(t) ==
    /\ chan[t] # <<>>
    /\ Len(queue) < QueueCap
    /\ queue' = Append(queue, [kind |-> "send", id |-> Head(chan[t]).client_id,
                               packet |-> Head(chan[t]).packet, pc |-> "start"])
    /\ chan' = [chan EXCEPT ![t] = Tail(@)]
    /\ UNCHANGED <<server_vars, pc, stream, info, idle, out, manager_vars, topic_vars,
                   worker, panicked, nread>>

\* Server::publish_dispatch: the job, send_publish on the session of the
\* receiver, unwrapped
SendPublishJob(w) ==
    /\ Running(w, "send", "start")
    /\ LET id == worker[w].id
           p == worker[w].packet
       IN IF sessions[id] = NoSession
          THEN /\ panicked' = TRUE
               /\ UNCHANGED <<out, sessions>>
          ELSE /\ sessions' = [sessions EXCEPT ![id] = SendPublishSession(@, p)]
               /\ IF CanWrite(id)
                  THEN /\ out' = SendPacketOut(id, SendPublishPacket(id, p))
                       /\ UNCHANGED panicked
                  ELSE /\ panicked' = (panicked \/ sessions[id].connected)
                       /\ UNCHANGED out
    /\ worker' = [worker EXCEPT ![w] = Idle]
    /\ UNCHANGED <<server_vars, pc, stream, info, idle, taken_over, topic_vars, queue,
                   chan, nread>>

\* ------------------------------------------------------------- server loop
\* ServerController::shutdown sets the flag
ControllerShutdown ==
    /\ ~shutdown_bool
    /\ shutdown_bool' = TRUE
    /\ UNCHANGED <<server_pc, shutdown_info, run_vars, will_sent, dumps, pc, stream, info, idle,
                   out, manager_vars, topic_vars, pool_vars, chan, nread>>

\* Server::server_loop leaves the accept loop; Server::shutdown calls
\* ClientsManager::shutdown(false)
ServerShutdown ==
    /\ server_pc = "accept"
    /\ dumping.at = "idle"
    /\ shutdown_bool
    /\ shutdown_info' = ShutdownInfo(FALSE)
    /\ sessions' = ShutdownSessions
    /\ stream' = ShutdownStreams
    /\ server_pc' = "shutdown"
    /\ UNCHANGED <<shutdown_bool, run_vars, will_sent, dumps, pc, info, idle, out, taken_over,
                   topic_vars, pool_vars, chan, nread>>

\* Server::shutdown: remove_client of the clean sessions, send_last_will of the
\* collected last wills
ServerShutdownPublish ==
    /\ server_pc = "shutdown"
    /\ subscribers' = TopicRemoveClients(subscribers, shutdown_info.clean_session_ids)
    /\ chan' = [chan EXCEPT ![ServerThread] =
                   Concat([i \in 1..Len(shutdown_info.last_will_packets) |->
                       TopicPublishMessages(
                           LastWillPublish(shutdown_info.last_will_packets[i][2]))])]
    /\ will_sent' = will_sent \cup
            {shutdown_info.last_will_packets[i][2].conn :
                i \in 1..Len(shutdown_info.last_will_packets)}
    /\ server_pc' = "join"
    /\ UNCHANGED <<shutdown_bool, shutdown_info, run_vars, dumps, pc, stream, info, idle, out,
                   manager_vars, retained, pool_vars, nread>>

\* a server loop that returns without waiting for the client threads
ServerJoinEarly ==
    /\ server_pc = "join"
    /\ chan[ServerThread] = <<>>
    /\ server_pc' = "drop"
    /\ UNCHANGED <<shutdown_bool, shutdown_info, run_vars, will_sent, dumps, pc, stream, info,
                   idle, out, manager_vars, topic_vars, pool_vars, chan, nread>>

\* Server::server_loop returns: the ThreadJoiner joins the client threads
ServerJoin ==
    /\ server_pc = "join"
    /\ chan[ServerThread] = <<>>
    /\ \A c \in Conns : pc[c] \in {"none", "done"}
    /\ server_pc' = "drop"
    /\ UNCHANGED <<shutdown_bool, shutdown_info, run_vars, will_sent, dumps, pc, stream, info,
                   idle, out, manager_vars, topic_vars, pool_vars, chan, nread>>

\* Drop for Server: the dump, when the last holder of the server lets go of it,
\* the server loop or the last job of the pool
ServerDrop ==
    /\ server_pc = "drop"
    /\ queue = <<>>
    /\ \A w \in Workers : worker[w] = Idle
    /\ env.dump_info = "none" \/ dumping.at = "returned"
    /\ dumps' = dumps + 1
    /\ server_pc' = "done"
    /\ UNCHANGED <<shutdown_bool, shutdown_info, run_vars, will_sent, pc, stream, info, idle,
                   out, manager_vars, topic_vars, pool_vars, chan, nread>>

\* -------------------------------------------------------------- persistence
\* serde of the topic handler and of the clients manager: the transport of a
\* session is a live handle and is not written
TopicHandlerValue == [subscribers |-> subscribers, retained |-> retained]
SessionValue(s) ==
    [connected |-> s.connected, clean_session |-> s.clean_session,
     keep_alive |-> s.keep_alive, last_will |-> s.last_will, inflight |-> s.inflight,
     next_packet_id |-> s.next_packet_id]
ClientsManagerValue ==
    [id \in {i \in ClientIds : sessions[i] # NoSession} |-> SessionValue(sessions[id])]
SessionOfValue(v) ==
    [exists |-> TRUE, connected |-> v.connected, transport |-> NoConn,
     clean_session |-> v.clean_session, keep_alive |-> v.keep_alive,
     last_will |-> v.last_will, inflight |-> v.inflight,
     next_packet_id |-> v.next_packet_id]
ClientsManagerOfValue(v) ==
    [id \in ClientIds |-> IF id \in DOMAIN v THEN SessionOfValue(v[id]) ELSE NoSession]

\* the document Server::dump writes
DumpJson(topic_handler, clients_manager) ==
    JsonObject([topic_handler |-> topic_handler, clients_manager |-> clients_manager])

\* Server::dump is called with a dump path in the configuration: by the server
\* loop when the interval is over, and by the Drop of the Server
DumpDue ==
    /\ env.dump_info # "none"
    /\ \/ server_pc = "accept" /\ env.dump_info = "interval" /\ dumping.ticks < MaxDumps
       \/ server_pc = "drop" /\ queue = <<>> /\ \A w \in Workers : worker[w] = Idle

\* Server::dump: serde_json::to_value of the topic handler
DumpTopicHandler ==
    /\ dumping.at = "idle"
    /\ DumpDue
    /\ dumping' = [dumping EXCEPT !.at = "clients_manager",
                                  !.topic_handler = TopicHandlerValue]
    /\ UNCHANGED <<broker_vars, server_pc, env_vars, disk, runs>>

\* Server::dump: serde_json::to_value of the clients manager
DumpClientsManager ==
    /\ dumping.at = "clients_manager"
    /\ dumping' = [dumping EXCEPT !.at = "create",
                                  !.clients_manager = ClientsManagerValue]
    /\ UNCHANGED <<broker_vars, server_pc, env_vars, disk, runs>>

\* Server::dump: fs::write opens the file at the dump path, which truncates it
DumpCreate ==
    /\ dumping.at = "create"
    /\ disk' = File(NotJson)
    /\ dumping' = [dumping EXCEPT !.at = "write"]
    /\ UNCHANGED <<broker_vars, server_pc, env_vars, runs>>

\* Server::dump: fs::write writes the document and dump returns Ok
DumpWrite ==
    /\ dumping.at = "write"
    /\ disk' = File(DumpJson(dumping.topic_handler, dumping.clients_manager))
    /\ dumping' = [dumping EXCEPT !.at = "returned", !.result = "ok"]
    /\ UNCHANGED <<broker_vars, server_pc, env_vars, runs>>

\* Server::dump: create_dir_all or fs::write fails and dump returns the error
DumpFail ==
    /\ dumping.at \in {"create", "write"}
    /\ dumping' = [dumping EXCEPT !.at = "returned", !.result = "error"]
    /\ UNCHANGED <<broker_vars, server_pc, env_vars, disk, runs>>

\* Server::server_loop after its dump: the next turn of the loop, or the return
\* of the error of the dump
ServerDumped ==
    /\ server_pc = "accept"
    /\ dumping.at = "returned"
    /\ dumping' = [NotDumping EXCEPT !.ticks = dumping.ticks + 1]
    /\ server_pc' = IF dumping.result = "ok" THEN "accept" ELSE "join"
    /\ UNCHANGED <<broker_vars, env_vars, disk, runs>>

\* Server::restore_from_json
RestoreFromJson(text) ==
    IF text.json = "invalid" THEN "DumpError"
    ELSE IF text.json # "object" THEN "panic"
    ELSE IF "topic_handler" \notin DOMAIN text.fields THEN "panic"
    ELSE IF "clients_manager" \notin DOMAIN text.fields THEN "panic"
    ELSE IF text.fields.topic_handler = BadValue THEN "DumpError"
    ELSE IF text.fields.clients_manager = BadValue THEN "DumpError"
    ELSE "restored"

\* Server::try_restore up to restore_from_json
TryRestore ==
    IF env.dump_info = "none" THEN "blank"
    ELSE IF disk = NoFile THEN "blank"
    ELSE RestoreFromJson(disk.text)

\* Server::new: the blank server, the server of the dump, None, or the panic of
\* restore_from_json
ServerNew ==
    /\ server_pc = "new"
    /\ server_pc' = CASE TryRestore = "blank" -> "accept"
                      [] TryRestore = "restored" -> "restore"
                      [] TryRestore = "DumpError" -> "none"
                      [] TryRestore = "panic" -> "panicked"
    /\ IF TryRestore = "restored"
       THEN /\ sessions' = ClientsManagerOfValue(disk.text.fields.clients_manager)
            /\ subscribers' = disk.text.fields.topic_handler.subscribers
            /\ retained' = disk.text.fields.topic_handler.retained
       ELSE UNCHANGED <<sessions, subscribers, retained>>
    /\ UNCHANGED <<shutdown_bool, shutdown_info, run_vars, will_sent, dumps, pc, stream,
                   info, idle, out, taken_over, pool_vars, chan, nread>>

\* a try_restore that removes every session it detaches from the topic handler
RestoreShutdownAll ==
    /\ server_pc = "restore"
    /\ shutdown_info' = ShutdownInfo(FALSE)
    /\ sessions' = ShutdownSessions
    /\ subscribers' = TopicRemoveClients(subscribers, Connected)
    /\ server_pc' = "restore_wills"
    /\ UNCHANGED <<shutdown_bool, run_vars, will_sent, dumps, pc, stream, info, idle, out,
                   taken_over, retained, pool_vars, chan, nread>>

\* Server::try_restore: ClientsManager::shutdown(false) and remove_client of the
\* clean sessions
RestoreShutdown ==
    /\ server_pc = "restore"
    /\ shutdown_info' = ShutdownInfo(FALSE)
    /\ sessions' = ShutdownSessions
    /\ subscribers' = TopicRemoveClients(subscribers, ShutdownInfo(FALSE).clean_session_ids)
    /\ server_pc' = "restore_wills"
    /\ UNCHANGED <<shutdown_bool, run_vars, will_sent, dumps, pc, stream, info, idle, out,
                   taken_over, retained, pool_vars, chan, nread>>

\* Server::try_restore: send_last_will of the collected last wills
RestoreLastWills ==
    /\ server_pc = "restore_wills"
    /\ chan' = [chan EXCEPT ![ServerThread] =
                   Concat([i \in 1..Len(shutdown_info.last_will_packets) |->
                       TopicPublishMessages(
                           LastWillPublish(shutdown_info.last_will_packets[i][2]))])]
    /\ will_sent' = will_sent \cup
            {shutdown_info.last_will_packets[i][2].conn :
                i \in 1..Len(shutdown_info.last_will_packets)}
    /\ server_pc' = "accept"
    /\ UNCHANGED <<shutdown_bool, shutdown_info, run_vars, dumps, pc, stream, info, idle,
                   out, manager_vars, topic_vars, pool_vars, nread>>

\* the broker process ends, killed or at the end of main, and is started again:
\* the file at the dump path is what is left of it
Restart ==
    /\ runs < MaxRuns
    /\ runs' = runs + 1
    /\ shutdown_bool' = FALSE
    /\ server_pc' = "new"
    /\ shutdown_info' = [clean_session_ids |-> {}, last_will_packets |-> <<>>]
    /\ pc' = [c \in Conns |-> "none"]
    /\ stream' = [c \in Conns |-> "none"]
    /\ info' = [c \in Conns |-> NoInfo]
    /\ idle' = [c \in Conns |-> 0]
    /\ out' = [c \in Conns |-> <<>>]
    /\ sessions' = [id \in ClientIds |-> NoSession]
    /\ taken_over' = {}
    /\ subscribers' = [f \in SubFilters |-> [id \in ClientIds |-> -1]]
    /\ retained' = [t \in Topics |-> NoRetained]
    /\ queue' = <<>>
    /\ worker' = [w \in Workers |-> Idle]
    /\ chan' = [t \in Threads |-> <<>>]
    /\ nread' = 0
    /\ panicked' = FALSE
    /\ will_sent' = {}
    /\ dumps' = 0
    /\ dumping' = NotDumping
    /\ UNCHANGED <<env_vars, disk>>

\* --------------------------------------------------------------------- Next
\* the steps of a connection thread up to the client loop
Connecting(c) ==
    \/ AcceptClient(c)
    \/ ConnectClient(c)
    \/ SendConnack(c)

\* the steps of a connection thread after the client loop
Disconnecting(c) ==
    \/ ReadEof(c)
    \/ DisconnectClient(c)
    \/ RemoveClient(c)
    \/ SendLastWill(c)
    \/ JoinDispatcher(c)

\* the delivery of the messages of a broadcast
Delivering ==
    \/ \E t \in Threads : PublishDispatch(t)
    \/ \E w \in Workers : WorkerTake(w) \/ SendPublishJob(w)

Subscribing(w) == HandleSubscribe(w) \/ HandleSubscribeInstall(w)

\* connections come and go, are refused, are taken over, and the server shuts down
Next ==
    \/ \E c \in Conns :
        \/ Connecting(c)
        \/ ConnectRefused(c)
        \/ ConnectFailed(c)
        \/ ManageFailedConnection(c)
        \/ TakeoverLastWill(c)
        \/ ReadSubscribe(c)
        \/ ReadPuback(c)
        \/ ReadPingReq(c)
        \/ ReadDisconnect(c)
        \/ ReadInvalid(c)
        \/ ReadTimeout(c)
        \/ Disconnecting(c)
    \/ \E w \in Workers : Subscribing(w)
    \/ Delivering
    \/ ControllerShutdown
    \/ ServerShutdown
    \/ ServerShutdownPublish
    \/ ServerJoin
    \/ ServerDrop

\* what the clients may send in a run of Spec
Env ==
    [conns |-> MaxConns, packets |-> MaxPackets, clean |-> BOOLEAN,
     wills |-> {NoWill} \cup Wills, keep_alives |-> KeepAlives, qos |-> {2},
     retain |-> {FALSE}, filters |-> {<<"t", "#">>},
     dump_info |-> "none"]

Init == InitWith(Env)

Spec == Init /\ [][Next]_vars

\* the client closes its socket while the broker answers its Connect: the
\* write_all of the Connack fails
PeerCloses(c) ==
    /\ pc[c] = "connack"
    /\ stream[c] = "open"
    /\ stream' = [stream EXCEPT ![c] = "eof"]
    /\ UNCHANGED <<server_vars, pc, info, idle, out, manager_vars, topic_vars, pool_vars,
                   chan, nread>>

\* the broker of Spec with clients that may leave before their Connack
NextLeave == Next \/ \E c \in Conns : PeerCloses(c)

SpecLeave == Init /\ [][NextLeave]_vars

\* one client publishes, subscribes and unsubscribes, and the pool runs its jobs
NextJobs ==
    \/ \E c \in Conns :
        \/ Connecting(c)
        \/ ReadPublish(c)
        \/ ReadSubscribe(c)
        \/ ReadUnsubscribe(c)
        \/ Disconnecting(c)
    \/ \E w \in Workers :
        \/ HandlePublish(w)
        \/ HandlePublishBroadcast(w)
        \/ HandlePublishJoin(w)
        \/ Subscribing(w)
        \/ HandleSubscribeRetained(w)
        \/ HandleUnsubscribe(w)
        \/ HandleUnsuback(w)
    \/ Delivering

EnvJobs ==
    [conns |-> MaxJobConns, packets |-> MaxJobPackets, clean |-> BOOLEAN,
     wills |-> {NoWill} \cup Wills, keep_alives |-> {0}, qos |-> QoSOnWire,
     retain |-> BOOLEAN, filters |-> SubFilters,
     dump_info |-> "none"]

InitJobs == InitWith(EnvJobs)

SpecJobs == InitJobs /\ [][NextJobs]_vars

\* one client subscribes and publishes one packet after the other
NextOrder ==
    \/ \E c \in Conns :
        \/ Connecting(c)
        \/ ReadSubscribe(c)
        \/ ReadPublish(c)
    \/ \E w \in Workers :
        \/ HandlePublish(w)
        \/ HandlePublishBroadcast(w)
        \/ HandlePublishJoin(w)
        \/ Subscribing(w)
    \/ Delivering

EnvOrder ==
    [conns |-> MaxOrderConns, packets |-> MaxOrderPackets, clean |-> {FALSE},
     wills |-> {NoWill}, keep_alives |-> {0}, qos |-> {0, 1}, retain |-> {FALSE},
     filters |-> {<<"t", "#">>},
     dump_info |-> "none"]

InitOrder == InitWith(EnvOrder)

SpecOrder == InitOrder /\ [][NextOrder]_vars

\* one client subscribes, publishes to itself at QoS 1, acknowledges, and idles
NextAck ==
    \/ \E c \in Conns :
        \/ Connecting(c)
        \/ ReadSubscribe(c)
        \/ ReadPublish(c)
        \/ ReadPuback(c)
        \/ ReadTimeout(c)
        \/ ReadEof(c)
        \/ DisconnectClient(c)
    \/ \E w \in Workers :
        \/ HandlePublish(w)
        \/ HandlePublishBroadcast(w)
        \/ HandlePublishJoin(w)
        \/ Subscribing(w)
    \/ Delivering

EnvAck ==
    [conns |-> MaxAckConns, packets |-> MaxAckPackets, clean |-> {FALSE},
     wills |-> {NoWill}, keep_alives |-> KeepAlives, qos |-> {1}, retain |-> {FALSE},
     filters |-> {<<"t", "#">>},
     dump_info |-> "none"]

InitAck == InitWith(EnvAck)

SpecAck == InitAck /\ [][NextAck]_vars

\* clients connect and disconnect while the controller shuts the server down
NextShutdown ==
    \/ \E c \in Conns :
        \/ Connecting(c)
        \/ ConnectFailed(c)
        \/ ManageFailedConnection(c)
        \/ TakeoverLastWill(c)
        \/ ReadDisconnect(c)
        \/ Disconnecting(c)
    \/ ControllerShutdown
    \/ ServerShutdown
    \/ ServerShutdownPublish
    \/ ServerJoin
    \/ ServerDrop

EnvShutdown ==
    [conns |-> MaxShutdownConns, packets |-> MaxShutdownPackets, clean |-> BOOLEAN,
     wills |-> {NoWill} \cup Wills, keep_alives |-> {0}, qos |-> {0}, retain |-> {FALSE},
     filters |-> {<<"t", "#">>},
     dump_info |-> "none"]

InitShutdown == InitWith(EnvShutdown)

\* the steps a connection thread takes without waiting for its client: the read
\* of the Connect returns, with a packet or when CONNECTION_WAIT_TIMEOUT is over,
\* the read of a transport the broker closed fails, and the rest is the thread's
\* own code
ThreadStep(c) ==
    \/ ConnectClient(c)
    \/ ConnectFailed(c)
    \/ ManageFailedConnection(c)
    \/ SendConnack(c)
    \/ TakeoverLastWill(c)
    \/ JoinDispatcher(c)
    \/ (stream[c] = "closed" /\ ReadEof(c))
    \/ DisconnectClient(c)
    \/ RemoveClient(c)
    \/ SendLastWill(c)

\* the server loop polls the flag and runs on, and every thread runs on
Fairness ==
    /\ WF_vars(ServerShutdown)
    /\ WF_vars(ServerShutdownPublish)
    /\ WF_vars(ServerJoin)
    /\ WF_vars(ServerDrop)
    /\ \A c \in Conns : WF_vars(ThreadStep(c))

SpecShutdown == InitShutdown /\ [][NextShutdown]_vars /\ Fairness

\* a client with a persistent session subscribes to a filter and unsubscribes
\* from it, in either order
NextSubs ==
    \/ \E c \in Conns :
        \/ Connecting(c)
        \/ ReadSubscribe(c)
        \/ ReadUnsubscribe(c)
    \/ \E w \in Workers :
        \/ WorkerTake(w)
        \/ Subscribing(w)
        \/ HandleUnsubscribe(w)
        \/ HandleUnsuback(w)

EnvSubs ==
    [conns |-> MaxSubsConns, packets |-> MaxSubsPackets, clean |-> {FALSE},
     wills |-> {NoWill}, keep_alives |-> {0}, qos |-> {0, 1}, retain |-> {FALSE},
     filters |-> {<<"t", "#">>},
     dump_info |-> "none"]

InitSubs == InitWith(EnvSubs)

SpecSubs == InitSubs /\ [][NextSubs]_vars

\* a client subscribes to what it publishes and sends more publishes than the
\* pool has threads and its queue has places
NextPool ==
    \/ \E c \in Conns :
        \/ Connecting(c)
        \/ ReadSubscribe(c)
        \/ ReadPublish(c)
    \/ \E w \in Workers :
        \/ Subscribing(w)
        \/ HandlePublish(w)
        \/ HandlePublishBroadcast(w)
        \/ HandlePublishJoin(w)
    \/ Delivering

EnvPool ==
    [conns |-> MaxPoolConns, packets |-> MaxPoolPackets, clean |-> {FALSE},
     wills |-> {NoWill}, keep_alives |-> {0}, qos |-> {0}, retain |-> {FALSE},
     filters |-> {<<"t", "#">>},
     dump_info |-> "none"]

InitPool == InitWith(EnvPool)

\* a step of the pool thread w
WorkerStep(w) ==
    \/ WorkerTake(w)
    \/ Subscribing(w)
    \/ HandlePublish(w)
    \/ HandlePublishBroadcast(w)
    \/ HandlePublishJoin(w)
    \/ SendPublishJob(w)

\* every pool thread and every dispatcher thread runs on when it can
PoolFairness ==
    /\ \A w \in Workers : WF_vars(WorkerStep(w))
    /\ \A t \in Threads : WF_vars(PublishDispatch(t))

SpecPool == InitPool /\ [][NextPool]_vars /\ PoolFairness

\* a broker that dumps on its interval and at its end is started, serves one
\* client, ends or is killed, and is started again on the file it left
NextDump ==
    \/ \E c \in Conns :
        \/ Connecting(c)
        \/ ReadSubscribe(c)
        \/ ReadPublish(c)
        \/ Disconnecting(c)
    \/ \E w \in Workers :
        \/ HandlePublish(w)
        \/ HandlePublishBroadcast(w)
        \/ HandlePublishJoin(w)
        \/ Subscribing(w)
    \/ Delivering
    \/ ControllerShutdown
    \/ ServerShutdown
    \/ ServerShutdownPublish
    \/ ServerJoin
    \/ ServerDrop
    \/ DumpTopicHandler
    \/ DumpClientsManager
    \/ DumpCreate
    \/ DumpWrite
    \/ DumpFail
    \/ ServerDumped
    \/ ServerNew
    \/ RestoreShutdown
    \/ RestoreLastWills
    \/ Restart

EnvDump ==
    [conns |-> MaxDumpConns, packets |-> MaxDumpPackets, clean |-> BOOLEAN,
     wills |-> {NoWill} \cup Wills, keep_alives |-> {0}, qos |-> {1}, retain |-> {FALSE},
     filters |-> {<<"t", "#">>},
     dump_info |-> "interval"]

\* the files the first start of the broker may find at its dump path
InitialFiles ==
    {NoFile, File(NotJson), File(JsonArray), File(JsonObject(<<>>)),
     File(JsonObject([topic_handler |-> BadValue])),
     File(JsonObject([topic_handler |-> BadValue, clients_manager |-> BadValue]))}

InitDump == \E file \in InitialFiles : InitAt(EnvDump, "new", file)

SpecDump == InitDump /\ [][NextDump]_vars

\* a broker that dumps on its interval serves a client with a persistent
\* session, is killed, and is started again on the file it left
NextRestore ==
    \/ \E c \in Conns :
        \/ Connecting(c)
        \/ ReadSubscribe(c)
        \/ ReadPublish(c)
    \/ \E w \in Workers :
        \/ HandlePublish(w)
        \/ HandlePublishBroadcast(w)
        \/ HandlePublishJoin(w)
        \/ Subscribing(w)
    \/ Delivering
    \/ DumpTopicHandler
    \/ DumpClientsManager
    \/ DumpCreate
    \/ DumpWrite
    \/ ServerDumped
    \/ ServerNew
    \/ RestoreShutdown
    \/ RestoreLastWills
    \/ Restart

EnvRestore ==
    [conns |-> MaxRestoreConns, packets |-> MaxRestorePackets, clean |-> {FALSE},
     wills |-> {NoWill} \cup Wills, keep_alives |-> {0}, qos |-> {1}, retain |-> {FALSE},
     filters |-> {<<"t", "#">>},
     dump_info |-> "interval"]

InitRestore == InitAt(EnvRestore, "new", NoFile)

SpecRestore == InitRestore /\ [][NextRestore]_vars

\* ------------------------------------------------------------------ Connect
\* the bits of the connect flags
RESERVED == 1
CLEAN_SESSION == 2
WILL_FLAG == 4
WILL_QOS_0 == 8
WILL_QOS_1 == 16
WILL_RETAIN == 32
PASSWORD_FLAG == 64
USERNAME_FLAG == 128
PROTOCOL_LEVEL == 4

\* buf[0] & mask != 0, for a mask of one bit
BitSet(byte, mask) == (byte \div mask) % 2 = 1

\* strings are the sequences of their bytes
MQTT == <<77, 81, 84, 84>>

None == [some |-> FALSE]
Some(v) == [some |-> TRUE, value |-> v]

\* Field::encode: the length in two bytes, big endian, then the bytes
FieldEncode(value) == <<Len(value) \div 256, Len(value) % 256>> \o value

\* Field::new_from_stream: None when the bytes run out or hold a null
FieldNewFromStream(bytes) ==
    IF Len(bytes) < 2 THEN None
    ELSE LET len == bytes[1] * 256 + bytes[2]
         IN  IF Len(bytes) < 2 + len THEN None
             ELSE IF \E i \in 3..(2 + len) : bytes[i] = 0 THEN None
             ELSE [some |-> TRUE, value |-> SubSeq(bytes, 3, 2 + len),
                   rest |-> SubSeq(bytes, 3 + len, Len(bytes))]

\* the Connect that get_flags builds before the flags say more
NoConnect ==
    [client_id |-> <<>>, clean_session |-> FALSE, user_name |-> None,
     password |-> None, last_will |-> None, keep_alive |-> 0]

\* what a step of Connect::new works on: the error returned so far, the bytes
\* not read yet, the Connect under construction
Decoder(bytes) == [err |-> "none", bytes |-> bytes, ret |-> NoConnect]
Fail(s, kind) == [s EXCEPT !.err = kind]

\* packet_reader::read_packet_bytes: the remaining length of the fixed header
\* says how many bytes of the stream are the packet
ReadPacketBytes(fixed_header, input) ==
    IF Len(input) < fixed_header[2] THEN Fail(Decoder(<<>>), "Other")
    ELSE Decoder(SubSeq(input, 1, fixed_header[2]))

VerifyProtocol(s) ==
    IF s.err # "none" THEN s
    ELSE LET mensaje == FieldNewFromStream(s.bytes)
         IN  IF ~mensaje.some THEN Fail(s, "Other")
             ELSE IF mensaje.value # MQTT THEN Fail(s, "InvalidProtocol")
             ELSE [s EXCEPT !.bytes = mensaje.rest]

\* a verify_protocol_level that lets every level through
VerifyProtocolLevelAny(s) ==
    IF s.err # "none" THEN s
    ELSE IF Len(s.bytes) < 1 THEN Fail(s, "Other")
    ELSE [s EXCEPT !.bytes = Tail(s.bytes)]

VerifyProtocolLevel(s) ==
    IF s.err # "none" THEN s
    ELSE IF Len(s.bytes) < 1 THEN Fail(s, "Other")
    ELSE IF Head(s.bytes) # PROTOCOL_LEVEL THEN Fail(s, "InvalidProtocolLevel")
    ELSE [s EXCEPT !.bytes = Tail(s.bytes)]

\* Connect::get_will: Err, or the last will the flags announce
GetWill(buf) ==
    IF BitSet(buf, WILL_FLAG)
    THEN Some([retain |-> BitSet(buf, WILL_RETAIN),
               qos |-> IF ~BitSet(buf, WILL_QOS_0) THEN 0 ELSE 1,
               topic |-> <<>>, message |-> <<>>])
    ELSE IF BitSet(buf, WILL_QOS_0) \/ BitSet(buf, WILL_QOS_1) \/ BitSet(buf, WILL_RETAIN)
    THEN [some |-> FALSE, err |-> "InvalidFlags"]
    ELSE None

GetFlags(s) ==
    IF s.err # "none" THEN s
    ELSE IF Len(s.bytes) < 1 THEN Fail(s, "Other")
    ELSE LET buf == Head(s.bytes)
         IN  IF BitSet(buf, RESERVED) THEN Fail(s, "InvalidFlags")
             ELSE IF GetWill(buf) = [some |-> FALSE, err |-> "InvalidFlags"]
             THEN Fail(s, "InvalidFlags")
             ELSE [s EXCEPT !.bytes = Tail(s.bytes),
                            !.ret = [client_id |-> <<>>,
                                     clean_session |-> BitSet(buf, CLEAN_SESSION),
                                     user_name |-> IF BitSet(buf, USERNAME_FLAG)
                                                   THEN Some(<<>>) ELSE None,
                                     password |-> IF BitSet(buf, PASSWORD_FLAG)
                                                  THEN Some(<<>>) ELSE None,
                                     last_will |-> GetWill(buf),
                                     keep_alive |-> 0]]

GetKeepalive(s) ==
    IF s.err # "none" THEN s
    ELSE IF Len(s.bytes) < 2 THEN Fail(s, "Other")
    ELSE [s EXCEPT !.bytes = SubSeq(s.bytes, 3, Len(s.bytes)),
                   !.ret.keep_alive = s.bytes[1] * 256 + s.bytes[2]]

GetClientid(s) ==
    IF s.err # "none" THEN s
    ELSE LET string == FieldNewFromStream(s.bytes)
         IN  IF ~string.some THEN Fail(s, "Other")
             ELSE [s EXCEPT !.bytes = string.rest, !.ret.client_id = string.value]

GetWillData(s) ==
    IF s.err # "none" \/ ~s.ret.last_will.some THEN s
    ELSE LET topic == FieldNewFromStream(s.bytes)
         IN  IF ~topic.some THEN Fail(s, "Other")
             ELSE LET message == FieldNewFromStream(topic.rest)
                  IN  IF ~message.some THEN Fail(s, "Other")
                      ELSE [s EXCEPT !.bytes = message.rest,
                                     !.ret.last_will.value.topic = topic.value,
                                     !.ret.last_will.value.message = message.value]

\* the user name of get_auth
GetUserName(s) ==
    IF s.err # "none" \/ ~s.ret.user_name.some THEN s
    ELSE LET user == FieldNewFromStream(s.bytes)
         IN  IF ~user.some THEN Fail(s, "Other")
             ELSE [s EXCEPT !.bytes = user.rest, !.ret.user_name = Some(user.value)]

\* the password of get_auth
GetPassword(s) ==
    IF s.err # "none" \/ ~s.ret.password.some THEN s
    ELSE LET password == FieldNewFromStream(s.bytes)
         IN  IF ~password.some THEN Fail(s, "Other")
             ELSE [s EXCEPT !.bytes = password.rest, !.ret.password = Some(password.value)]

GetAuth(s) == GetPassword(GetUserName(s))

\* a Connect::new that does not look at the bytes that are left
NoBytesLeftUnchecked(s) == s

\* the end of Connect::new: a byte that can still be read is an error
NoBytesLeft(s) ==
    IF s.err # "none" THEN s
    ELSE IF Len(s.bytes) >= 1 THEN Fail(s, "Other")
    ELSE s

\* Connect::new
ConnectNew(fixed_header, input) ==
    NoBytesLeft(GetAuth(GetWillData(GetClientid(GetKeepalive(GetFlags(
        VerifyProtocolLevel(VerifyProtocol(ReadPacketBytes(fixed_header, input)))))))))

\* the Connect packets handed to Connect::new, as the tests build them: the
\* protocol name, the level, the flags, the keep alive, the fields of the payload
HEADER_1 == 16
Protocols == {MQTT, <<77, 81, 84, 84, 33>>}
Levels == {PROTOCOL_LEVEL, 7}
FlagBits == {RESERVED, CLEAN_SESSION, WILL_FLAG, WILL_QOS_0, WILL_QOS_1, WILL_RETAIN,
             PASSWORD_FLAG, USERNAME_FLAG}
RECURSIVE Sum(_)
Sum(S) == IF S = {} THEN 0 ELSE LET x == CHOOSE y \in S : TRUE IN x + Sum(S \ {x})
Flags == {Sum(S) : S \in SUBSET FlagBits}
KeepAliveBytes == {<<0, 60>>, <<16, 60>>}
\* "i", "t", "m", "u", "p", "x"
PayloadFields == <<<<105>>, <<116>>, <<109>>, <<117>>, <<112>>, <<120>>>>
Payloads == {SubSeq(PayloadFields, 1, n) : n \in 0..Len(PayloadFields)}
\* the remaining length of the fixed header against the length of the packet
Lengths == {-1, 0, 1}

Wires ==
    [protocol : Protocols, level : Levels, flags : Flags, keep_alive : KeepAliveBytes,
     payload : Payloads, length : Lengths]

RECURSIVE EncodeFields(_)
EncodeFields(fields) ==
    IF fields = <<>> THEN <<>>
    ELSE FieldEncode(Head(fields)) \o EncodeFields(Tail(fields))

WireBytes(w) ==
    FieldEncode(w.protocol) \o <<w.level, w.flags>> \o w.keep_alive
    \o EncodeFields(w.payload)

\* the packet on its way to Connect::new
Arrived(w) ==
    [wire |-> w, fixed_header |-> <<HEADER_1, Len(WireBytes(w)) + w.length>>,
     stream |-> WireBytes(w), result |-> NotReturned]

\* Connect::new returns
DecodeConnect ==
    /\ decoding # NotDecoding
    /\ decoding.result = NotReturned
    /\ decoding' = [decoding EXCEPT
                        !.result = ConnectNew(decoding.fixed_header, decoding.stream)]
    /\ UNCHANGED <<broker_vars, server_pc, env, locking, disk, dumping, runs>>

NextConnect == DecodeConnect

InitConnect == \E w \in Wires : InitState(Env, "accept", NoFile, Arrived(w))

SpecConnect == InitConnect /\ [][NextConnect]_vars

\* ------------------------------------------------------------------ PingReq
PINGREQ_PACKET_TYPE == 192
PACKET_TYPE_MASK == 240
RESERVED_BYTES_MASK == 15
RESERVED_BYTES == 0

\* a & b on bytes
RECURSIVE BitAnd(_, _)
BitAnd(a, b) ==
    IF a = 0 \/ b = 0 THEN 0
    ELSE 2 * BitAnd(a \div 2, b \div 2) + (IF a % 2 = 1 /\ b % 2 = 1 THEN 1 ELSE 0)

\* packet_reader::read_remaining_bytes: the remaining length, then that many
\* bytes of the stream
ReadRemainingBytes(input) ==
    IF Len(input) < 1 THEN Fail(Decoder(<<>>), "Other")
    ELSE IF Len(input) < 1 + input[1] THEN Fail(Decoder(<<>>), "Other")
    ELSE Decoder(SubSeq(input, 2, 1 + input[1]))

PingReqCheckPacketType(control_byte) ==
    IF BitAnd(control_byte, PACKET_TYPE_MASK) # PINGREQ_PACKET_TYPE
    THEN "InvalidControlPacketType" ELSE "none"

\* a check_reserved_bytes that lets every control byte through
PingReqCheckReservedBytesAny(control_byte) == "none"

PingReqCheckReservedBytes(control_byte) ==
    IF BitAnd(control_byte, RESERVED_BYTES_MASK) # RESERVED_BYTES THEN "Other" ELSE "none"

\* PingReq::read_from
PingReqReadFrom(input, control_byte) ==
    IF PingReqCheckPacketType(control_byte) # "none"
    THEN Fail(Decoder(<<>>), PingReqCheckPacketType(control_byte))
    ELSE IF PingReqCheckReservedBytes(control_byte) # "none"
    THEN Fail(Decoder(<<>>), PingReqCheckReservedBytes(control_byte))
    ELSE LET bytes == ReadRemainingBytes(input)
         IN  IF bytes.err # "none" THEN bytes
             ELSE IF Len(bytes.bytes) >= 1 THEN Fail(bytes, "Other")
             ELSE bytes

\* the control bytes and the streams handed to the read_from of a packet
ControlBytes == 0..255
PingReqStreams == {<<>>, <<0>>, <<0, 0>>, <<1>>, <<1, 0>>, <<2, 0, 0>>}

\* PingReq::read_from returns
DecodePingReq ==
    /\ decoding # NotDecoding
    /\ decoding.result = NotReturned
    /\ decoding' = [decoding EXCEPT
                        !.result = PingReqReadFrom(decoding.stream, decoding.control_byte)]
    /\ UNCHANGED <<broker_vars, server_pc, env, locking, disk, dumping, runs>>

NextPingReq == DecodePingReq

InitPingReq ==
    \E b \in ControlBytes, s \in PingReqStreams :
        InitState(Env, "accept", NoFile,
                  [control_byte |-> b, stream |-> s, result |-> NotReturned])

SpecPingReq == InitPingReq /\ [][NextPingReq]_vars

\* -------------------------------------------------------------- Unsubscribe
UNSUBSCRIBE_CONTROL_PACKET_TYPE == 10
FIXED_RESERVED_BITS == 2

UnsubscribeVerifyControlPacketType(control_byte) ==
    IF BitAnd(control_byte, 240) \div 16 # UNSUBSCRIBE_CONTROL_PACKET_TYPE
    THEN "InvalidControlPacketType" ELSE "none"

\* a verify_reserved_bits that lets every control byte through
UnsubscribeVerifyReservedBitsAny(control_byte) == "none"

UnsubscribeVerifyReservedBits(control_byte) ==
    IF BitAnd(control_byte, 15) # FIXED_RESERVED_BITS
    THEN "InvalidReservedBits" ELSE "none"

\* Unsubscribe::read_packet_id: the error of read_exact is dropped; the buffer
\* stays zeroed, and the reader is left where it was or at its end
UnsubscribeReadPacketId(s, at_end) ==
    IF Len(s.bytes) < 2
    THEN [s EXCEPT !.bytes = IF at_end THEN <<>> ELSE @, !.ret = [packet_id |-> 0]]
    ELSE [s EXCEPT !.bytes = SubSeq(@, 3, Len(@)),
                   !.ret = [packet_id |-> s.bytes[1] * 256 + s.bytes[2]]]

\* Unsubscribe::read_topic_filters: the loop ends at the first field that
\* new_from_stream does not return
RECURSIVE UnsubscribeReadTopicFilters(_, _)
UnsubscribeReadTopicFilters(s, topic_filters_buffer) ==
    LET topic_filter == FieldNewFromStream(s.bytes)
    IN  IF topic_filter.some
        THEN IF topic_filter.value = <<>> THEN Fail(s, "InvalidProtocol")
             ELSE UnsubscribeReadTopicFilters(
                      [s EXCEPT !.bytes = topic_filter.rest],
                      Append(topic_filters_buffer, topic_filter.value))
        ELSE IF topic_filters_buffer = <<>> THEN Fail(s, "InvalidProtocol")
        ELSE [s EXCEPT !.ret = [packet_id |-> s.ret.packet_id,
                                topic_filters |-> topic_filters_buffer]]

\* Unsubscribe::read_from
UnsubscribeReadFrom(input, control_byte, at_end) ==
    IF UnsubscribeVerifyControlPacketType(control_byte) # "none"
    THEN Fail(Decoder(<<>>), UnsubscribeVerifyControlPacketType(control_byte))
    ELSE IF UnsubscribeVerifyReservedBits(control_byte) # "none"
    THEN Fail(Decoder(<<>>), UnsubscribeVerifyReservedBits(control_byte))
    ELSE LET remaining_bytes == ReadRemainingBytes(input)
         IN  IF remaining_bytes.err # "none" THEN remaining_bytes
             ELSE UnsubscribeReadTopicFilters(
                      UnsubscribeReadPacketId(remaining_bytes, at_end), <<>>)

\* the Unsubscribe packets handed to read_from: the packet id, the topic filters
\* ("", "a", "b/c"), and bytes after them that are no field: a cut length, a cut
\* body, a null
PacketIdBytes == {<<0, 1>>, <<1, 2>>}
FilterValues == {<<>>, <<97>>, <<98, 47, 99>>}
FilterLists == UNION {[1..n -> FilterValues] : n \in 0..2}
Trailing == {<<>>, <<0>>, <<0, 2, 97>>, <<0, 1, 0>>}
UnsubscribeWires ==
    [control_byte : ControlBytes, packet_id : PacketIdBytes, filters : FilterLists,
     trailing : Trailing]
    \cup [control_byte : {162}, packet_id : {<<>>, <<7>>}, filters : {<<>>},
          trailing : {<<>>}]

UnsubscribeBytes(w) == w.packet_id \o EncodeFields(w.filters) \o w.trailing

UnsubscribeArrived(w) ==
    [wire |-> w, control_byte |-> w.control_byte,
     stream |-> <<Len(UnsubscribeBytes(w))>> \o UnsubscribeBytes(w),
     result |-> NotReturned]

\* Unsubscribe::read_from returns
DecodeUnsubscribe ==
    /\ decoding # NotDecoding
    /\ decoding.result = NotReturned
    /\ \E at_end \in BOOLEAN :
        decoding' = [decoding EXCEPT
            !.result = UnsubscribeReadFrom(decoding.stream, decoding.control_byte, at_end)]
    /\ UNCHANGED <<broker_vars, server_pc, env, locking, disk, dumping, runs>>

NextUnsubscribe == DecodeUnsubscribe

InitUnsubscribe ==
    \E w \in UnsubscribeWires : InitState(Env, "accept", NoFile, UnsubscribeArrived(w))

SpecUnsubscribe == InitUnsubscribe /\ [][NextUnsubscribe]_vars

\* -------------------------------------------------------------------- locks
\* the three locks of the broker: the RwLock of Server::clients_manager, the
\* lock of the topic handler, and the lock of each client session
ClientsManagerLock == <<"clients_manager", "">>
TopicHandlerLock == <<"topic_handler", "">>
SessionLock(id) == <<"session", id>>
Transport(id) == <<"transport", id>>

Lock(lock, mode) == [do |-> "acquire", lock |-> lock, mode |-> mode]
Unlock(lock) == [do |-> "release", lock |-> lock, mode |-> "none"]
WriteAll(id, packet_type) == [do |-> "write", lock |-> Transport(id), mode |-> packet_type]

\* self.clients_manager.read()?.client_do(id, |client| ...): the read guard of the
\* clients manager lives to the end of the statement, the session is locked for
\* the closure
ClientDo(id, closure) ==
    <<Lock(ClientsManagerLock, "read"), Lock(SessionLock(id), "write")>>
    \o closure
    \o <<Unlock(SessionLock(id)), Unlock(ClientsManagerLock)>>

\* a method of the clients manager that goes through the sessions
RECURSIVE EachSession(_)
EachSession(ids) ==
    IF ids = <<>> THEN <<>>
    ELSE <<Lock(SessionLock(Head(ids)), "write"), Unlock(SessionLock(Head(ids)))>>
         \o EachSession(Tail(ids))

\* self.clients_manager.write()?.method(...)
ClientsManagerWrite(ids) ==
    <<Lock(ClientsManagerLock, "write")>> \o EachSession(ids)
    \o <<Unlock(ClientsManagerLock)>>

\* a method of the topic handler
TopicHandlerDo(mode) == <<Lock(TopicHandlerLock, mode), Unlock(TopicHandlerLock)>>

\* Server::connect_client: new_session, then remove_client
ConnectClientLocks(id) == ClientsManagerWrite(<<id>>) \o TopicHandlerDo("write")

\* Server::client_loop: client.keep_alive(); Puback: client.acknowledge
KeepAliveLocks(id) == ClientDo(id, <<>>)

\* PingReq: client.send_packet(&PingResp::new())
PingReqLocks(id) == ClientDo(id, <<WriteAll(id, "PingResp")>>)

\* Server::client_loop on a read timeout: client.send_unacknowledged
TimeoutLocks(id) == ClientDo(id, <<WriteAll(id, "Publish")>>)

\* Server::manage_successful_connection after the loop: disconnect,
\* remove_client, send_last_will
DisconnectLocks(id) ==
    ClientsManagerWrite(<<id>>) \o TopicHandlerDo("write") \o TopicHandlerDo("read")

\* Server::handle_publish: the Puback, then broadcast_publish
HandlePublishLocks(id) ==
    ClientDo(id, <<WriteAll(id, "Puback")>>) \o TopicHandlerDo("read")

\* Server::handle_subscribe: the Suback, subscribe, the retained messages
HandleSubscribeLocks(id) ==
    ClientDo(id, <<WriteAll(id, "Suback")>>) \o TopicHandlerDo("write")
    \o ClientDo(id, <<WriteAll(id, "Publish")>>)

\* a handle_unsubscribe that writes the Unsuback inside the topic handler
HandleUnsubscribeLocksNested(id) ==
    <<Lock(TopicHandlerLock, "write")>> \o ClientDo(id, <<WriteAll(id, "Unsuback")>>)
    \o <<Unlock(TopicHandlerLock)>>

\* Server::handle_unsubscribe: unsubscribe, then the Unsuback
HandleUnsubscribeLocks(id) ==
    TopicHandlerDo("write") \o ClientDo(id, <<WriteAll(id, "Unsuback")>>)

\* Server::publish_dispatch: the job that sends the Publish
PublishDispatchLocks(id) == ClientDo(id, <<WriteAll(id, "Publish")>>)

\* Server::shutdown: shutdown of the clients manager, remove_client,
\* send_last_will
ShutdownLocks ==
    ClientsManagerWrite(SeqOfSet(ClientIds)) \o TopicHandlerDo("write")
    \o TopicHandlerDo("read")

\* Server::dump: to_value of the topic handler, then of the clients manager
DumpLocks ==
    TopicHandlerDo("read")
    \o <<Lock(ClientsManagerLock, "read")>> \o EachSession(SeqOfSet(ClientIds))
    \o <<Unlock(ClientsManagerLock)>>

\* the operations of a thread: of a connection thread, of a pool worker, and of
\* the thread of the server loop
ConnOps == {"connect_client", "keep_alive", "pingreq", "timeout", "disconnect"}
WorkerOps == {"handle_publish", "handle_subscribe", "handle_unsubscribe",
              "publish_dispatch"}
ServerOps == {"shutdown", "dump"}
OpsOf(t) == IF t = ServerThread THEN ServerOps ELSE IF t \in Conns THEN ConnOps ELSE WorkerOps
IdsOf(t) == IF t = ServerThread THEN {""} ELSE IF t \in Conns THEN ConnIds(t) ELSE ClientIds

Program(op, id) ==
    CASE op = "connect_client" -> ConnectClientLocks(id)
      [] op = "keep_alive" -> KeepAliveLocks(id)
      [] op = "pingreq" -> PingReqLocks(id)
      [] op = "timeout" -> TimeoutLocks(id)
      [] op = "disconnect" -> DisconnectLocks(id)
      [] op = "handle_publish" -> HandlePublishLocks(id)
      [] op = "handle_subscribe" -> HandleSubscribeLocks(id)
      [] op = "handle_unsubscribe" -> HandleUnsubscribeLocks(id)
      [] op = "publish_dispatch" -> PublishDispatchLocks(id)
      [] op = "shutdown" -> ShutdownLocks
      [] op = "dump" -> DumpLocks
      [] op = "none" -> <<>>

\* the program a thread runs and the instruction it is at
ProgramOf(t) == Program(locking[t].op, locking[t].id)
AtInstr(t) == locking[t].op # "none" /\ locking[t].at <= Len(ProgramOf(t))
Instr(t) == ProgramOf(t)[locking[t].at]

\* the locks a thread holds
Held(t) == {h.lock : h \in locking[t].held}

\* RwLock and Mutex: a writer excludes everyone, readers exclude writers
Available(t, lock, mode) ==
    \A u \in Threads \ {t} : \A h \in locking[u].held :
        h.lock = lock => (mode = "read" /\ h.mode = "read")

other_vars == <<broker_vars, server_pc, env, decoding, disk, dumping, runs>>

\* a thread starts one of its operations
LockBegin(t) ==
    /\ locking[t].op = "none"
    /\ \E op \in OpsOf(t), id \in IdsOf(t) :
        locking' = [locking EXCEPT ![t] = [op |-> op, id |-> id, at |-> 1, held |-> {}]]
    /\ UNCHANGED other_vars

\* lock(), read() or write() returns the guard when the lock is available
LockAcquire(t) ==
    /\ AtInstr(t)
    /\ Instr(t).do = "acquire"
    /\ Available(t, Instr(t).lock, Instr(t).mode)
    /\ locking' = [locking EXCEPT ![t].at = @ + 1,
                                  ![t].held = @ \cup {[lock |-> Instr(t).lock,
                                                       mode |-> Instr(t).mode]}]
    /\ UNCHANGED other_vars

\* the guard is dropped
LockRelease(t) ==
    /\ AtInstr(t)
    /\ Instr(t).do = "release"
    /\ locking' = [locking EXCEPT ![t].at = @ + 1,
                                  ![t].held = {h \in @ : h.lock # Instr(t).lock}]
    /\ UNCHANGED other_vars

\* write_all on the transport of the client returns
LockWrite(t) ==
    /\ AtInstr(t)
    /\ Instr(t).do = "write"
    /\ locking' = [locking EXCEPT ![t].at = @ + 1]
    /\ UNCHANGED other_vars

\* the operation returns
LockEnd(t) ==
    /\ locking[t].op # "none"
    /\ locking[t].at > Len(ProgramOf(t))
    /\ locking' = [locking EXCEPT ![t] = NotLocking]
    /\ UNCHANGED other_vars

\* the threads that contend: the server loop, a connection thread, a pool worker
LockThreads == {ServerThread, 1, WorkerThread(1)}

NextLocks ==
    \E t \in LockThreads :
        \/ LockBegin(t)
        \/ LockAcquire(t)
        \/ LockRelease(t)
        \/ LockWrite(t)
        \/ LockEnd(t)

InitLocks == InitWith(Env)

SpecLocks == InitLocks /\ [][NextLocks]_vars

\* ------------------------------------------------------------ properties
\* the connection thread of c makes a step
Steps(c) == pc'[c] # pc[c]

\* the session of the client of c holds the transport of c
Attached(c) ==
    /\ c \notin taken_over
    /\ sessions[info[c].id] # NoSession
    /\ sessions[info[c].id].transport = c

\* the client of c registered a last will and its loop ended for another reason
\* than a Disconnect packet
LeavesUngracefully(c) ==
    /\ pc[c] = "disconnect"
    /\ info[c].last # "Disconnect"
    /\ info[c].will # NoWill

\* the clients whose subscriptions match the topic of a last will
WillReceivers(will) ==
    {id \in ClientIds : \E f \in SubFilters :
        subscribers[f][id] >= 0 /\ TopicMatches(f, will.topic)}

\* disconnect is called with gracefully = false and hands the last will back
DisconnectsWithWill(c) ==
    /\ ~info[c].gracefully
    /\ pc'[c] \in {"remove_client", "last_will"}
    /\ info'[c].publish_last_will = info[c].will

\* the thread of c goes from the removal of its clean session to its last will
RemovesThenWill(c) ==
    (pc[c] = "remove_client" /\ Steps(c) /\ info[c].publish_last_will # NoWill)
        => (pc'[c] = "last_will" /\ info'[c].publish_last_will = info[c].publish_last_will)

\* send_last_will broadcasts the will to every client with a matching subscription
BroadcastsWill(c) ==
    (pc[c] = "last_will" /\ Steps(c)) =>
        LET will == info[c].publish_last_will
        IN /\ info'[c].sent_last_will
           /\ {m.client_id : m \in Range(chan'[c])} = WillReceivers(will)
           /\ \A m \in Range(chan'[c]) :
                /\ m.packet.type = "Publish"
                /\ m.packet.topic = will.topic
                /\ m.packet.payload = will.payload

\* the last will of c waits in the thread of the connection that took c over
WillTakenOver(c) ==
    \E d \in Conns :
        /\ pc[d] \in {"connack", "takeover_will"}
        /\ info[d].takeover_last_will = info[c].will

AfterLoop(c) == pc[c] \in {"disconnect", "remove_client", "last_will", "will_join"}

\* C2: once a connected client has sent a Disconnect packet, its loop returns
\* true, disconnect is called with gracefully = true, and no thread hands the
\* last will of that connection to a broadcast
C2_GracefulNoWill ==
    \A c \in Conns :
        (AfterLoop(c) /\ info[c].last = "Disconnect")
        => (/\ info[c].gracefully
            /\ pc[c] \notin {"last_will", "will_join"}
            /\ c \notin will_sent)

\* the Connect of c, with clean_session = false, finds the session of its client
\* connected on another transport and not clean
TakesOver(c) ==
    /\ pc[c] = "connect"
    /\ pc'[c] = "connack"
    /\ sessions[info'[c].id] # NoSession
    /\ sessions[info'[c].id].connected
    /\ ~sessions[info'[c].id].clean_session
    /\ ~sessions'[info'[c].id].clean_session

\* C3: a Connect with clean_session = false that takes over a connected session
\* with clean_session = false gets session_present = true in its Connack, the
\* old transport is closed by the broker, the subscriptions and the inflight
\* queue carry over, and from then on publishes are written to the transport
\* the session holds, never to a closed one
C3_TakeOver ==
    [][\A c \in Conns :
        /\ TakesOver(c) =>
            LET id == info'[c].id
            IN /\ info'[c].session_present
               /\ stream'[sessions[id].transport] = "closed"
               /\ stream'[c] = "open"
               /\ sessions'[id].transport = c
               /\ sessions'[id].inflight = sessions[id].inflight
               /\ subscribers' = subscribers
        /\ (pc[c] = "connack" /\ Steps(c) /\ stream[c] = "open")
            => out'[c] = Append(out[c], Connack(info[c].session_present, 0))
        /\ stream[c] = "closed" => out'[c] = out[c]
        /\ \A w \in Workers :
            (Running(w, "send", "start") /\ worker'[w] = Idle /\ out'[c] # out[c])
                => c = sessions[worker[w].id].transport]_vars

\* after a take-over the new transport got session_present = true and a publish
\* that matches a subscription made over the old transport
C3_Witness ==
    \E c, d \in Conns :
        /\ c # d
        /\ stream[c] = "closed"
        /\ \E i \in 1..Len(out[c]) : out[c][i].type = "Suback"
        /\ pc[d] = "loop"
        /\ info[d].session_present
        /\ sessions[info[d].id].transport = d
        /\ out[d] # <<>>
        /\ out[d][1] = Connack(TRUE, 0)
        /\ \E i \in 1..Len(out[d]) : out[d][i].type = "Publish"
        /\ \A i \in 1..Len(out[c]) : out[c][i].type # "Publish"

\* the thread of c is between new_session and disconnect
Serving(c) ==
    pc[c] \in {"connack", "takeover_will", "takeover_join", "loop", "disconnect"}

\* the open transports whose threads serve a client-id
OpenTransports(id) ==
    {c \in Conns : stream[c] = "open" /\ Serving(c) /\ info[c].id = id}

\* C4: whatever the interleaving of connects, take-overs, disconnects and
\* shutdown, every client-id has at most one open transport served by a
\* connection thread, and it is the one its only session holds
C4_OneTransport ==
    \A id \in ClientIds :
        /\ Cardinality(OpenTransports(id)) <= 1
        /\ \A c \in OpenTransports(id) :
            /\ sessions[id] # NoSession
            /\ sessions[id].connected
            /\ sessions[id].transport = c

\* two threads serve the same client-id: the transport of the first is closed,
\* the one of the second is open
C4_Witness ==
    \E c, d \in Conns :
        /\ c # d
        /\ Serving(c) /\ Serving(d)
        /\ info[c].id = info[d].id
        /\ stream[c] = "closed"
        /\ stream[d] = "open"

\* the publishes a transport got that are neither retained replays, nor resent,
\* nor last wills
Forwarded(c) ==
    {i \in 1..Len(out[c]) :
        /\ out[c][i].type = "Publish"
        /\ out[c][i].sub = 0
        /\ ~out[c][i].dup
        /\ out[c][i].will = 0}

\* C5: two publishes a client sent one after the other on one connection, both
\* matching a subscription of a subscriber, are written to the subscriber in the
\* order they were sent, whatever the interleaving of the pool threads
C5_PublishOrder ==
    \A c \in Conns : \A i, j \in Forwarded(c) :
        (i < j /\ out[c][i].from = out[c][j].from)
            => out[c][i].payload[1] < out[c][j].payload[1]

\* where the transports hold a packet of a type with a packet-id
Written(type, pid) ==
    UNION {{<<c, i>> : i \in {j \in 1..Len(out[c]) :
                                  out[c][j].type = type /\ out[c][j].pid = pid}} :
           c \in Conns}

\* worker w runs handle_publish on a publish at its start
StartsPublish(w) == Running(w, "publish", "start") /\ worker'[w] # worker[w]

PubackBeforeFanOut ==
    /\ Written("Puback", 0) = {}
    /\ \A n \in 1..nread : Cardinality(Written("Puback", n)) <= 1
    /\ \A w \in Workers :
        (worker[w] # Idle /\ worker[w].kind = "publish" /\ worker[w].pc # "start"
            /\ worker[w].packet.pid # 0)
        => Written("Puback", worker[w].packet.pid) # {}

\* what handle_publish does with the Puback of the publish it starts on
PubackStep(w) ==
    LET publish == worker[w].packet
        id == worker[w].id
    IN IF publish.pid = 0
       THEN out' = out /\ worker'[w] # Idle
       ELSE IF CanWrite(id)
       THEN /\ out' = [out EXCEPT ![sessions[id].transport] =
                          Append(@, Puback(publish.pid))]
            /\ worker'[w] # Idle
            /\ worker'[w].pc = "broadcast"
       ELSE out' = out /\ worker'[w] = Idle

\* a Puback is written by handle_publish only
PubackWriter(c) ==
    (Len(out'[c]) > Len(out[c]) /\ out'[c][Len(out'[c])].type = "Puback")
        => \E w \in Workers : StartsPublish(w)

Jobs == Range(queue) \cup {worker[w] : w \in {v \in Workers : worker[v] # Idle}}

\* the packets the broker has granted, stored, forwarded or is about to forward
Carried ==
    UNION {{out[c][i] : i \in {j \in 1..Len(out[c]) : out[c][j].type = "Publish"}} :
           c \in Conns}
    \cup UNION {{m.packet : m \in Range(chan[t])} : t \in Threads}
    \cup {j.packet : j \in {k \in Jobs : k.kind = "send" \/
                              (k.kind \in {"publish", "subscribe"} /\ k.pc # "start")}}
    \cup {retained[t] : t \in {u \in Topics : retained[u] # NoRetained}}
    \cup UNION {Range(sessions[id].inflight) :
                id \in {i \in ClientIds : sessions[i] # NoSession}}

\* the return codes of the Subacks written
Granted ==
    UNION {UNION {Range(out[c][i].codes) :
                  i \in {j \in 1..Len(out[c]) : out[c][j].type = "Suback"}} :
           c \in Conns}

\* nothing granted, stored or forwarded is at QoS 2
NoQoS2 ==
    /\ \A p \in Carried : p.qos \in {0, 1}
    /\ \A code \in Granted : code \in {0, 1}
    /\ \A f \in SubFilters, id \in ClientIds : subscribers[f][id] \in {-1, 0, 1}

\* the messages a broadcast of publish makes carry the minimum of its qos and of
\* the qos granted to a matching subscription of the receiver
MinOfGranted(messages, publish) ==
    \A m \in Range(messages) :
        \E f \in SubFilters :
            /\ TopicMatches(f, publish.topic)
            /\ subscribers[f][m.client_id] >= 0
            /\ m.packet.qos = Min(Min(publish.qos, 1), subscribers[f][m.client_id])

\* C7: no packet the broker grants, stores or forwards carries QoS 2, last wills
\* included, and a subscriber gets a publish at the minimum of the granted and
\* the published qos
C7_QoSCapped ==
    /\ []NoQoS2
    /\ [][/\ \A w \in Workers :
              (Running(w, "publish", "broadcast") /\ worker'[w] # worker[w])
              => MinOfGranted(chan'[WorkerThread(w)], worker[w].packet)
          /\ \A c \in Conns :
              (pc[c] = "last_will" /\ Steps(c))
              => MinOfGranted(chan'[c], WillPublish(info[c].publish_last_will))]_vars

\* a subscription asked at QoS 2 was granted QoS 1 and a publish was written to
\* the subscriber at QoS 1
C7_Witness ==
    \E c \in Conns : \E i, j \in 1..Len(out[c]) :
        /\ out[c][i].type = "Suback"
        /\ out[c][i].codes = <<1>>
        /\ out[c][j].type = "Publish"
        /\ out[c][j].qos = 1
        /\ out[c][j].sub = 0

\* worker w makes a step of the job it runs
Works(w, kind, at) == Running(w, kind, at) /\ worker'[w] # worker[w]

\* the retained replays written have the Suback of their Subscribe before them,
\* and a Subscribe is in the topic handler only after its Suback
SubackFirst ==
    /\ \A w \in Workers :
        (worker[w] # Idle /\ worker[w].kind = "subscribe" /\ worker[w].pc # "start")
        => Written("Suback", worker[w].packet.pid) # {}
    /\ \A c \in Conns : \A i \in 1..Len(out[c]) :
        (out[c][i].type = "Publish" /\ out[c][i].sub # 0)
        => \E a \in Written("Suback", out[c][i].sub) : a[1] # c \/ a[2] < i

\* handle_subscribe, step by step: the Suback with the granted qos, then the
\* subscription and the retained messages its filter matches, then their replay
SubscribeSteps(w) ==
    LET sub == worker[w].packet
        id == worker[w].id
    IN /\ Works(w, "subscribe", "start") =>
            /\ subscribers' = subscribers
            /\ worker'[w] # Idle =>
                out' = [out EXCEPT ![sessions[id].transport] =
                           Append(@, [type |-> "Suback", pid |-> sub.pid,
                                      codes |-> <<Min(sub.qos, 1)>>])]
       /\ Works(w, "subscribe", "subscribe") =>
            /\ subscribers' = [subscribers EXCEPT ![sub.filter][id] = sub.qos]
            /\ out' = out
            /\ LET hit == {t \in Topics :
                              retained[t] # NoRetained /\ TopicMatches(sub.filter, t)}
               IN IF hit = {} THEN worker'[w] = Idle
                  ELSE /\ worker'[w] # Idle
                       /\ {m.topic : m \in Range(worker'[w].retained_messages)} = hit
                       /\ Len(worker'[w].retained_messages) = Cardinality(hit)
       /\ (Works(w, "subscribe", "retained") /\ CanWrite(id)) =>
            /\ Len(out'[sessions[id].transport])
                   = Len(out[sessions[id].transport]) + Len(worker[w].retained_messages)
            /\ \A i \in 1..Len(worker[w].retained_messages) :
                LET m == out'[sessions[id].transport][Len(out[sessions[id].transport]) + i]
                IN /\ m.type = "Publish"
                   /\ m.retain
                   /\ m.sub = sub.pid
                   /\ m.topic = worker[w].retained_messages[i].topic
                   /\ m.payload = worker[w].retained_messages[i].payload

\* C8: handle_subscribe writes the Suback first, then installs the subscription,
\* then sends the subscriber every retained message the filter matches; no
\* retained message of a Subscribe is written before its Suback
C8_SubackFirst ==
    /\ []SubackFirst
    /\ [][\A w \in Workers : SubscribeSteps(w)]_vars

\* a subscriber got its Suback and then the retained message its filter matches
C8_Witness ==
    \E c \in Conns : \E i, j \in 1..Len(out[c]) :
        /\ i < j
        /\ out[c][i].type = "Suback"
        /\ out[c][j].type = "Publish"
        /\ out[c][j].sub = out[c][i].pid
        /\ out[c][j].retain

\* handle_unsubscribe, step by step: the filter leaves the topic handler, then
\* the Unsuback with the packet-id of the Unsubscribe is written
UnsubscribeSteps(w) ==
    LET unsub == worker[w].packet
        id == worker[w].id
    IN /\ Works(w, "unsubscribe", "start") =>
            /\ subscribers'[unsub.filter][id] = -1
            /\ \A f \in SubFilters \ {unsub.filter} : subscribers'[f] = subscribers[f]
            /\ out' = out
            /\ worker'[w] # Idle
       /\ (Works(w, "unsubscribe", "unsuback") /\ CanWrite(id)) =>
            out' = [out EXCEPT ![sessions[id].transport] =
                       Append(@, [type |-> "Unsuback", pid |-> unsub.pid])]

\* an Unsuback is written by a handle_unsubscribe that is past the topic handler
UnsubackWriter(c) ==
    (Len(out'[c]) > Len(out[c]) /\ out'[c][Len(out'[c])].type = "Unsuback")
        => \E w \in Workers :
            /\ Works(w, "unsubscribe", "unsuback")
            /\ worker[w].packet.pid = out'[c][Len(out'[c])].pid

\* C9: handle_unsubscribe removes the filters from the topic handler before it
\* writes the Unsuback, and the Unsuback carries the packet-id of the Unsubscribe
C9_UnsubackAfterRemoval ==
    [][/\ \A w \in Workers : UnsubscribeSteps(w)
       /\ \A c \in Conns : UnsubackWriter(c)]_vars

\* a client subscribed, unsubscribed and got the Unsuback; its subscription is gone
C9_Witness ==
    /\ queue = <<>>
    /\ \A w \in Workers : worker[w] = Idle
    /\ \E c \in Conns :
        /\ pc[c] = "loop"
        /\ \A f \in SubFilters : subscribers[f][info[c].id] = -1
        /\ \E i, j \in 1..Len(out[c]) :
            /\ out[c][i].type = "Suback"
            /\ out[c][j].type = "Unsuback"
            /\ out[c][i].pid < out[c][j].pid

\* the thread of c reads a PingReq
ReadsPingReq(c) ==
    /\ pc[c] = "loop"
    /\ info'[c].turns = info[c].turns + 1
    /\ info'[c].last = "PingReq"

\* the step of the thread of c writes a PingResp
WritesPingResp(c) ==
    Len(out'[c]) > Len(out[c]) /\ out'[c][Len(out'[c])].type = "PingResp"

\* C10: the connection thread answers every PingReq it reads with exactly one
\* PingResp, written on its transport in the step that reads the PingReq, so
\* before the next read and not by the pool; the read counts as activity for
\* the keep-alive; no PingResp is written otherwise, and no PingReq fails for
\* the lack of a session to write to
C10_PingResp ==
    /\ [](\A c \in Conns : info[c].last # "ClientNotFound")
    /\ [][\A c \in Conns :
            /\ ReadsPingReq(c) =>
                /\ out' = [out EXCEPT ![c] = Append(@, [type |-> "PingResp"])]
                /\ idle'[c] = 0
                /\ pc'[c] = "loop"
                /\ queue' = queue /\ worker' = worker
            /\ WritesPingResp(c) => ReadsPingReq(c)]_vars

\* the loop of a client with a keep-alive has read a PingReq and written the
\* PingResp
C10_Witness ==
    \E c \in Conns :
        /\ pc[c] = "loop"
        /\ info[c].last = "PingReq"
        /\ idle[c] = 0
        /\ out[c][Len(out[c])] = PingResp
        /\ sessions[info[c].id].keep_alive # NoKeepAlive

\* the thread of c reads a packet of a type the Connected state does not expect
ReadsUnexpected(c) ==
    /\ pc[c] = "loop"
    /\ info'[c].turns = info[c].turns + 1
    /\ (info'[c].ended_on \in UnexpectedTypes \/ info'[c].last \in UnexpectedTypes)

\* the thread of c calls disconnect: its transport is closed and, when its
\* session holds it, the session is removed or left without a transport
Disconnects(c) ==
    /\ stream'[c] = "closed"
    /\ Attached(c) =>
        \/ sessions'[info[c].id] = NoSession
        \/ (~sessions'[info[c].id].connected /\ sessions'[info[c].id].transport = NoConn)

\* C11: a Connect, or a packet of any other unexpected type, read in the
\* Connected state is a protocol violation: it changes no session, no
\* subscription, no retained message and queues no job, the client loop ends
\* with gracefully = false and disconnect is called with gracefully = false
C11_UnexpectedPacket ==
    [][\A c \in Conns :
        /\ ReadsUnexpected(c) =>
            /\ info'[c].last = "ProtocolViolation"
            /\ ~info'[c].gracefully
            /\ pc'[c] = "disconnect"
            /\ UNCHANGED <<sessions, taken_over, subscribers, retained, queue, worker, out>>
        /\ (pc[c] = "disconnect" /\ info[c].ended_on \in UnexpectedTypes /\ Steps(c)) =>
            /\ ~info[c].gracefully
            /\ Disconnects(c)]_vars

\* a client with a last will sent a Connect while connected: its session is gone
\* and its last will is about to be published
C11_Witness ==
    \E c \in Conns :
        /\ pc[c] = "last_will"
        /\ info[c].ended_on = "Connect"
        /\ info[c].last = "ProtocolViolation"
        /\ ~info[c].gracefully
        /\ stream[c] = "closed"

\* connect_client of the thread of c returns an error
FailsToConnect(c) == pc[c] = "connect" /\ pc'[c] = "failed"

\* C12: the one read of AwaitingConnect either gives a Connect the clients
\* manager is asked about, or fails; when it fails the connection ends with no
\* session created, no change to the topic handler, nothing read by a client
\* loop, and the client loop is entered only after an accepted Connect
C12_AwaitingConnect ==
    [][\A c \in Conns :
        /\ (pc[c] = "connect" /\ Steps(c)) => pc'[c] \in {"connack", "failed"}
        /\ FailsToConnect(c) =>
            /\ info'[c].last \in ConnectErrors \cup {"ConnectionRefused"}
            /\ info'[c].id = ""
            /\ UNCHANGED <<sessions, taken_over, subscribers, retained, out, nread,
                           queue, stream>>
        /\ (pc[c] = "failed" /\ Steps(c)) =>
            /\ pc'[c] = "done"
            /\ stream'[c] = "closed"
            /\ UNCHANGED <<sessions, taken_over, subscribers, retained, nread, queue>>
        /\ (pc'[c] = "loop" /\ Steps(c)) =>
            /\ pc[c] \in {"connack", "takeover_join"}
            /\ info[c].id # ""]_vars

\* the first connection failed to connect and ended: the clients manager holds
\* no session and nothing was written to it
C12_Witness ==
    /\ pc[1] = "done"
    /\ pc[2] = "none"
    /\ stream[1] = "closed"
    /\ out[1] = <<>>
    /\ ~shutdown_bool
    /\ nread = 0
    /\ \A id \in ClientIds : sessions[id] = NoSession

\* the step of the thread of c writes a Connack with a return code other than
\* accepted
WritesRefusal(c) ==
    /\ Len(out'[c]) > Len(out[c])
    /\ out'[c][Len(out'[c])].type = "Connack"
    /\ out'[c][Len(out'[c])].code # 0

\* C13: when connecting fails with ConnectionRefused(return_code) the thread
\* writes one Connack with session_present = false and that return code, closes
\* the transport and ends without entering the client loop; when it fails with
\* another kind of error it writes no Connack; no Connack with a refusal code is
\* written otherwise
C13_RefusedConnack ==
    [][\A c \in Conns :
        /\ (pc[c] = "failed" /\ Steps(c)) =>
            /\ pc'[c] = "done"
            /\ stream'[c] = "closed"
            /\ out[c] = <<>>
            /\ \A d \in Conns \ {c} : out'[d] = out[d]
            /\ IF info[c].last = "ConnectionRefused"
               THEN /\ info[c].return_code \in RefusedCodes
                    /\ out'[c] = <<[type |-> "Connack", session_present |-> FALSE,
                                    code |-> info[c].return_code]>>
               ELSE out'[c] = <<>>
        /\ WritesRefusal(c) => (pc[c] = "failed" /\ info[c].last = "ConnectionRefused")]_vars

\* a refused connection ended with the one Connack that carries its return code
C13_Witness ==
    \E c \in Conns :
        /\ pc[c] = "done"
        /\ stream[c] = "closed"
        /\ out[c] = <<[type |-> "Connack", session_present |-> FALSE, code |-> 5]>>

\* a read of the loop of c times out
ReadsTimeout(c) ==
    /\ pc[c] = "loop"
    /\ info'[c].turns = info[c].turns + 1
    /\ info'[c].last \in {"Timeout", "KeepAlive"}

\* what send_unacknowledged may write for a session: nothing, or every inflight
\* publish again with dup set
Resent(s) == {<<>>, [i \in 1..Len(s.inflight) |-> [s.inflight[i] EXCEPT !.dup = TRUE]]}

\* the time since the last processed packet of c, in milliseconds, after one
\* more read timeout
Elapsed(c, s) ==
    (idle[c] + 1) * (IF s.keep_alive = NoKeepAlive THEN UnackResendingFreq ELSE s.keep_alive)

\* the loop of c has processed a packet
Processes(c) ==
    /\ pc[c] = "loop"
    /\ info'[c].turns = info[c].turns + 1
    /\ info'[c].last \in {"Publish", "Subscribe", "Puback"}

ReadsPuback(c) ==
    /\ pc[c] = "loop"
    /\ info'[c].turns = info[c].turns + 1
    /\ (info'[c].last = "Puback" \/ info'[c].ended_on = "Puback")

\* the packet-ids of the inflight publishes of a session are all different
InflightUnique ==
    \A id \in ClientIds :
        sessions[id] # NoSession =>
            Cardinality(InflightIds(sessions[id])) = Len(sessions[id].inflight)

\* C15: a Puback whose packet-id matches an inflight publish of the session
\* removes that entry and no other, and the client stays connected; a Puback
\* whose packet-id matches none leaves the inflight queue as it is, is a
\* protocol violation, and the client is disconnected with gracefully = false
C15_Puback ==
    /\ []InflightUnique
    /\ [][\A c \in Conns :
            /\ ReadsPuback(c) =>
                LET id == info[c].id
                    s == sessions[id]
                    pid == info'[c].packet_id
                IN /\ UNCHANGED <<out, subscribers, retained, queue>>
                   /\ IF pid \in InflightIds(s)
                      THEN /\ Len(sessions'[id].inflight) = Len(s.inflight) - 1
                           /\ InflightIds(sessions'[id]) = InflightIds(s) \ {pid}
                           /\ sessions'[id].inflight =
                                  SelectSeq(s.inflight, LAMBDA e : e.pid # pid)
                           /\ [sessions'[id] EXCEPT !.inflight = s.inflight] = s
                           /\ pc'[c] = "loop"
                           /\ info'[c].last = "Puback"
                           /\ idle'[c] = 0
                      ELSE /\ sessions' = sessions
                           /\ pc'[c] = "disconnect"
                           /\ info'[c].last = "ProtocolViolation"
                           /\ ~info'[c].gracefully
            /\ (pc[c] = "disconnect" /\ info[c].ended_on = "Puback" /\ Steps(c)) =>
                /\ ~info[c].gracefully
                /\ Disconnects(c)]_vars

\* of two inflight publishes the client acknowledged one: the other is still
\* inflight and the client is still in its loop
C15_Witness ==
    \E c \in Conns :
        /\ pc[c] = "loop"
        /\ info[c].last = "Puback"
        /\ info[c].packet_id # 0
        /\ Len(sessions[info[c].id].inflight) = 1
        /\ sessions[info[c].id].inflight[1].pid # info[c].packet_id

\* the subscriptions of a client-id are about to be removed from the topic
\* handler: by the thread that disconnected its clean session, or by shutdown
RemovalPending(id) ==
    \/ \E c \in Conns : pc[c] = "remove_client" /\ info[c].id = id
    \/ server_pc = "shutdown" /\ id \in shutdown_info.clean_session_ids

\* C16: once a session with clean_session = true has been disconnected and its
\* removal from the topic handler has run, the clients manager holds no session
\* for its id and the topic handler holds no subscriber entry for it
C16_CleanSessionGone ==
    \A id \in ClientIds :
        (sessions[id] = NoSession /\ ~RemovalPending(id))
        => \A f \in SubFilters : subscribers[f][id] = -1

\* connect_client of the thread of c returns with an accepted Connect that has
\* clean_session = true
AcceptsClean(c) ==
    /\ pc[c] = "connect"
    /\ pc'[c] = "connack"
    /\ sessions'[info'[c].id].clean_session

\* C17: when a Connect with clean_session = true is accepted, session_present
\* is false and connect_client leaves no subscriber entry of an earlier session
\* of the client-id in the topic handler
C17_CleanSessionDiscards ==
    [][\A c \in Conns :
        AcceptsClean(c) =>
            /\ ~info'[c].session_present
            /\ \A f \in SubFilters : subscribers'[f][info'[c].id] = -1]_vars

\* the connections whose last wills Server::shutdown collected
Collected == {shutdown_info.last_will_packets[i][2].conn :
                 i \in 1..Len(shutdown_info.last_will_packets)}

\* C18 as the spec states it: when the join of the outstanding client threads
\* completes, the final persistence dump has been run
C18_DumpBeforeJoin ==
    [][(server_pc = "join" /\ server_pc' # "join") => dumps = 1]_vars

\* C18: once the shutdown flag is observed the broker stops accepting
\* connections, calls the shutdown of the clients manager, which detaches every
\* session, removes the clean sessions from the topic handler and publishes
\* the last wills collected, joins the outstanding client threads, and only
\* then runs the one final dump, when the server is dropped
C18_ShutdownOrder ==
    [][/\ server_pc' # server_pc =>
            \/ /\ server_pc = "accept" /\ server_pc' = "shutdown"
               /\ shutdown_bool
               /\ \A id \in ClientIds : sessions'[id] # NoSession => ~sessions'[id].connected
               /\ dumps' = 0
            \/ /\ server_pc = "shutdown" /\ server_pc' = "join"
               /\ \A id \in shutdown_info.clean_session_ids :
                     \A f \in SubFilters : subscribers'[f][id] = -1
               /\ Collected \subseteq will_sent'
               /\ dumps' = 0
            \/ /\ server_pc = "join" /\ server_pc' = "drop"
               /\ \A c \in Conns : pc[c] \in {"none", "done"}
               /\ dumps' = 0
            \/ /\ server_pc = "drop" /\ server_pc' = "done"
               /\ dumps = 0 /\ dumps' = 1
       /\ server_pc # "accept" => \A c \in Conns : pc[c] = "none" => pc'[c] = "none"
       /\ dumps' # dumps => server_pc = "drop"]_vars

\* the server has shut down with a client connected: its thread was joined and
\* the final dump has run, with the session of the client stored
C18_Witness ==
    /\ server_pc = "done"
    /\ dumps = 1
    /\ pc[1] = "done"
    /\ out[1] # <<>>
    /\ out[1][1] = Connack(FALSE, 0)
    /\ sessions["x"] # NoSession
    /\ ~sessions["x"].connected

\* C19: when Server::shutdown runs, the last will of every session that is
\* connected and has one is collected, and every last will collected is
\* broadcast to the clients whose subscriptions match its topic
C19_ShutdownLastWills ==
    [][/\ (server_pc = "accept" /\ server_pc' = "shutdown") =>
            \A id \in Connected :
                sessions[id].last_will # NoWill =>
                    \E i \in 1..Len(shutdown_info'.last_will_packets) :
                        shutdown_info'.last_will_packets[i] = <<id, sessions[id].last_will>>
       /\ (server_pc = "shutdown" /\ server_pc' = "join") =>
            /\ Collected \subseteq will_sent'
            /\ \A i \in 1..Len(shutdown_info.last_will_packets) :
                  WillReceivers(shutdown_info.last_will_packets[i][2])
                      \subseteq {m.client_id : m \in Range(chan'[ServerThread])}]_vars

\* C20: once the controller has set the shutdown flag, the server loop leaves
\* its accept loop, every client thread ends, the join completes and the server
\* loop returns
C20_ShutdownTerminates ==
    shutdown_bool ~> (server_pc \in {"drop", "done"})

\* the clients manager of the document the broker is built from
Restoring == disk.text.fields.clients_manager

\* try_restore hands the server to Server::new
Restores == server_pc = "restore_wills" /\ server_pc' = "accept"

RestoredDisconnected ==
    \A id \in ClientIds :
        sessions'[id] # NoSession =>
            ~sessions'[id].connected /\ sessions'[id].transport = NoConn

RestoredScrubbed ==
    \A id \in DOMAIN Restoring :
        Restoring[id].clean_session =>
            /\ sessions'[id] = NoSession
            /\ \A f \in SubFilters : subscribers'[f][id] = -1

RestoredWillsPublished ==
    \A id \in DOMAIN Restoring :
        Restoring[id].last_will # NoWill => Restoring[id].last_will.conn \in will_sent'

\* C21: when try_restore has built the broker from a snapshot and before any
\* connection is accepted, every restored session is disconnected and holds no
\* transport, the clean sessions of the snapshot are gone from the clients
\* manager and from the topic handler, and the last will of every session of
\* the snapshot that had one was handed to broadcast_publish.
C21_RestoreFromSnapshot ==
    [][Restores =>
        /\ \A c \in Conns : pc[c] = "none"
        /\ RestoredDisconnected
        /\ RestoredScrubbed
        /\ RestoredWillsPublished]_vars

\* the topic handler of the document the broker is built from
RestoringTopics == disk.text.fields.topic_handler

\* the sessions of the snapshot that outlive their connection
Durable == {id \in DOMAIN Restoring : ~Restoring[id].clean_session}

Preserved ==
    \A id \in Durable :
        /\ sessions'[id] # NoSession
        /\ ~sessions'[id].clean_session
        /\ sessions'[id].inflight = Restoring[id].inflight
        /\ sessions'[id].next_packet_id = Restoring[id].next_packet_id
        /\ sessions'[id].last_will = Restoring[id].last_will
        /\ \A f \in SubFilters :
                subscribers'[f][id] = RestoringTopics.subscribers[f][id]

\* the broker runs on the document at the dump path and has not begun to write it
BuiltFromDisk ==
    /\ runs > 1
    /\ server_pc = "accept"
    /\ dumping = NotDumping
    /\ TryRestore = "restored"

\* the sessions of the snapshot a publish on the topic is owed to: subscribed in
\* the snapshot and connected again with clean_session = false
Owed(topic) ==
    {id \in Durable :
        /\ \E f \in SubFilters :
              RestoringTopics.subscribers[f][id] >= 0 /\ TopicMatches(f, topic)
        /\ sessions[id] # NoSession
        /\ sessions[id].connected
        /\ ~sessions[id].clean_session}

Routed(w) ==
    \A id \in Owed(worker[w].packet.topic) :
        \E i \in 1..Len(chan'[WorkerThread(w)]) :
            chan'[WorkerThread(w)][i].client_id = id

Complete(file) ==
    /\ file.kind = "file"
    /\ file.text.json = "object"
    /\ {"topic_handler", "clients_manager"} \subseteq DOMAIN file.text.fields

\* C23: a dump is atomic with respect to the dump path: whatever step of the
\* broker changes the file at the path leaves a complete snapshot there, so that
\* a broker killed or failing in the middle of a dump leaves the previous
\* snapshot or the new one, never a partial one.
C23_DumpAtomic == [][disk' # disk => Complete(disk')]_vars

\* the server loop leaves its accept loop
LeavesAcceptLoop == server_pc = "accept" /\ server_pc' # "accept" /\ runs' = runs

\* C24: a dump that fails in the server loop does not stop the broker: the loop
\* goes on with its next turn, and it is left only when the shutdown flag is set.
C24_DumpFailureServes ==
    [][/\ (server_pc = "accept" /\ dumping.at = "returned" /\ dumping' = NotDumping
            /\ runs' = runs) => server_pc' = "accept"
       /\ LeavesAcceptLoop => shutdown_bool]_vars

\* a document restore_from_json can build the two components from
Restorable(file) ==
    /\ Complete(file)
    /\ file.text.fields.topic_handler # BadValue
    /\ file.text.fields.clients_manager # BadValue

\* Server::new returns
Built == server_pc = "new" /\ server_pc' # "new"

BlankServer ==
    /\ sessions' = [id \in ClientIds |-> NoSession]
    /\ subscribers' = [f \in SubFilters |-> [id \in ClientIds |-> -1]]
    /\ retained' = [t \in Topics |-> NoRetained]

\* C25: restoring fails closed: with a file at the dump path that is no JSON, no
\* JSON object, or an object without topic_handler or clients_manager (or with a
\* component that cannot be read), Server::new returns None and no server is
\* built, without a panic; with no file at the path, or no dump path, it
\* returns a blank server.
C25_RestoreFailsClosed ==
    [][Built =>
        /\ server_pc' # "panicked"
        /\ (env.dump_info # "none" /\ disk # NoFile /\ ~Restorable(disk))
            => (server_pc' = "none" /\ BlankServer)
        /\ (env.dump_info = "none" \/ disk = NoFile)
            => (server_pc' = "accept" /\ BlankServer)]_vars

\* a step of the thread of connection c on its way out after an error
Failing(c) ==
    \/ FailsToConnect(c)
    \/ pc[c] = "failed" /\ Steps(c)
    \/ pc[c] = "loop" /\ pc'[c] = "disconnect" /\ ~info'[c].gracefully
    \/ /\ pc[c] \in {"disconnect", "remove_client", "last_will", "will_join"}
       /\ ~info[c].gracefully
       /\ Steps(c)

\* a job of the client ends on the error of its write
JobFails(id) ==
    \E w \in Workers :
        /\ worker[w] # Idle
        /\ worker[w].kind \in {"publish", "subscribe"}
        /\ worker[w].pc = "start"
        /\ worker[w].id = id
        /\ worker'[w] = Idle

\* the connections of the other clients that are being served
OtherClients(id) == {d \in Conns : Serving(d) /\ info[d].id # id}

Untouched(d) ==
    /\ pc'[d] = pc[d]
    /\ stream'[d] = stream[d]
    /\ info'[d] = info[d]
    /\ out'[d] = out[d]
    /\ sessions'[info[d].id] = sessions[info[d].id]
    /\ \A f \in SubFilters : subscribers'[f][info[d].id] = subscribers[f][info[d].id]

Absorbed(id) ==
    /\ server_pc' = server_pc
    /\ shutdown_bool' = shutdown_bool
    /\ \A d \in OtherClients(id) : Untouched(d)

Rank(lock) ==
    CASE lock[1] = "clients_manager" -> 1
      [] lock[1] = "topic_handler" -> 2
      [] lock[1] = "session" -> 3

\* a thread is blocked in lock(), read() or write()
Waiting(t) ==
    /\ AtInstr(t)
    /\ Instr(t).do = "acquire"
    /\ ~Available(t, Instr(t).lock, Instr(t).mode)

\* the threads that hold the lock a blocked thread waits for
Blockers(t) ==
    {u \in Threads \ {t} : \E h \in locking[u].held :
        h.lock = Instr(t).lock /\ ~(Instr(t).mode = "read" /\ h.mode = "read")}

\* threads that wait for one another
WaitCycle ==
    \E S \in SUBSET LockThreads :
        /\ S # {}
        /\ \A t \in S : Waiting(t) /\ Blockers(t) \cap S # {}

\* every lock a thread acquires is below the locks it holds
InOrder ==
    \A t \in LockThreads : \A new \in Held(t)' \ Held(t) : \A h \in Held(t) :
        Rank(h) < Rank(new)

\* C27: no thread acquires the clients-manager lock while it holds the
\* topic-handler lock or a session lock, and none acquires the topic-handler lock
\* while it holds a session lock; no cycle of threads waiting for these locks is
\* reachable
C27_LockHierarchy == [][InOrder]_vars /\ []~WaitCycle

\* a thread that holds the clients-manager lock waits for a session whose holder
\* holds the clients-manager lock too
C27_Witness ==
    \E t \in LockThreads :
        /\ Waiting(t)
        /\ ClientsManagerLock \in Held(t)
        /\ Rank(Instr(t).lock) = 3
        /\ \E u \in Blockers(t) : ClientsManagerLock \in Held(u)

\* a thread is in write_all on a transport
Writing(t) == AtInstr(t) /\ Instr(t).do = "write"

\* C28: while a Puback, Suback, Unsuback, PingResp or Publish is written to the
\* transport of a client, the writing thread holds at most one of the
\* clients-manager lock, the topic-handler lock and the session lock
C28_OneLockAcrossWrite ==
    \A t \in LockThreads : Writing(t) => Cardinality(Held(t)) <= 1

\* Connect::new has returned
Returned == decoding # NotDecoding /\ decoding.result # NotReturned

\* the will bits of the flags without the will flag
StrayWillBits(flags) ==
    /\ ~BitSet(flags, WILL_FLAG)
    /\ BitSet(flags, WILL_QOS_0) \/ BitSet(flags, WILL_QOS_1) \/ BitSet(flags, WILL_RETAIN)

\* the first failure of the variable header, in wire order
FirstFailure(w) ==
    IF w.protocol # MQTT THEN "InvalidProtocol"
    ELSE IF w.level # 4 THEN "InvalidProtocolLevel"
    ELSE IF BitSet(w.flags, RESERVED) THEN "InvalidFlags"
    ELSE IF StrayWillBits(w.flags) THEN "InvalidFlags"
    ELSE "none"

\* C29: Connect::new reports the first failure of the variable header of a packet
\* it could read, in wire order: a protocol name other than "MQTT" gives InvalidProtocol, otherwise a
\* level other than 4 gives InvalidProtocolLevel, otherwise the reserved bit gives
\* InvalidFlags, otherwise will QoS or will retain without the will flag gives
\* InvalidFlags
C29_HeaderInWireOrder ==
    Returned /\ FirstFailure(decoding.wire) # "none" /\ decoding.wire.length <= 0
        => decoding.result.err = FirstFailure(decoding.wire)

\* the will bits without the will flag are refused in a packet whose name, level
\* and reserved bit are right and whose payload lacks the user name it announces
C29_Witness ==
    /\ Returned
    /\ decoding.wire.protocol = MQTT
    /\ decoding.wire.level = 4
    /\ ~BitSet(decoding.wire.flags, RESERVED)
    /\ StrayWillBits(decoding.wire.flags)
    /\ BitSet(decoding.wire.flags, USERNAME_FLAG)
    /\ Len(decoding.wire.payload) = 1
    /\ decoding.result.err = "InvalidFlags"

\* the fields the flags announce: where each is in the payload, 0 when absent
WillAt(flags) == IF BitSet(flags, WILL_FLAG) THEN 2 ELSE 0
UserAt(flags) ==
    IF BitSet(flags, USERNAME_FLAG) THEN (IF BitSet(flags, WILL_FLAG) THEN 4 ELSE 2) ELSE 0
PasswordAt(flags) ==
    IF BitSet(flags, PASSWORD_FLAG)
    THEN 2 + (IF BitSet(flags, WILL_FLAG) THEN 2 ELSE 0)
           + (IF BitSet(flags, USERNAME_FLAG) THEN 1 ELSE 0)
    ELSE 0
Announced(flags) ==
    1 + (IF BitSet(flags, WILL_FLAG) THEN 2 ELSE 0)
      + (IF BitSet(flags, USERNAME_FLAG) THEN 1 ELSE 0)
      + (IF BitSet(flags, PASSWORD_FLAG) THEN 1 ELSE 0)

\* the payload of the packet holds the announced fields and nothing else
ExactPayload(w) == Len(w.payload) = Announced(w.flags) /\ w.length = 0

\* the Connect has the values of the wire
WireValues(w, ret) ==
    /\ ret.keep_alive = w.keep_alive[1] * 256 + w.keep_alive[2]
    /\ ret.clean_session = BitSet(w.flags, CLEAN_SESSION)
    /\ ret.client_id = w.payload[1]
    /\ ret.last_will.some = BitSet(w.flags, WILL_FLAG)
    /\ ret.last_will.some =>
        /\ ret.last_will.value.retain = BitSet(w.flags, WILL_RETAIN)
        /\ ret.last_will.value.topic = w.payload[WillAt(w.flags)]
        /\ ret.last_will.value.message = w.payload[WillAt(w.flags) + 1]
    /\ ret.user_name =
        IF BitSet(w.flags, USERNAME_FLAG) THEN Some(w.payload[UserAt(w.flags)]) ELSE None
    /\ ret.password =
        IF BitSet(w.flags, PASSWORD_FLAG) THEN Some(w.payload[PasswordAt(w.flags)]) ELSE None

\* C30: Connect::new accepts a packet only when its payload holds exactly the
\* fields the flags announce, in the order client id, will topic, will message,
\* user name, password; a missing field or a byte left over is an error; the
\* Connect it returns has the keep alive, clean session, will retain, topic and
\* message, user name and password of the wire
C30_ExactPayload ==
    Returned =>
        /\ ~ExactPayload(decoding.wire) => decoding.result.err # "none"
        /\ decoding.result.err = "none" => WireValues(decoding.wire, decoding.result.ret)

\* a Connect with a will, a user name and a password is accepted
C30_Witness ==
    /\ Returned
    /\ decoding.result.err = "none"
    /\ BitSet(decoding.wire.flags, WILL_FLAG)
    /\ BitSet(decoding.wire.flags, WILL_RETAIN)
    /\ BitSet(decoding.wire.flags, USERNAME_FLAG)
    /\ BitSet(decoding.wire.flags, PASSWORD_FLAG)
    /\ Len(decoding.wire.payload) = 5
    /\ decoding.result.ret.keep_alive = 16 * 256 + 60

\* the will QoS the two bits of the flags ask for
WillQoSBits(flags) ==
    (IF BitSet(flags, WILL_QOS_0) THEN 1 ELSE 0) + (IF BitSet(flags, WILL_QOS_1) THEN 2 ELSE 0)

\* C40: with the will flag set, the will QoS bits 0, 1 and 2 of the flags give
\* the will the QoS 0, 1 and 1; a will QoS of 2 never gives QoS 0
C40_WillQoSDowngraded ==
    Returned /\ decoding.result.err = "none" /\ BitSet(decoding.wire.flags, WILL_FLAG)
             /\ WillQoSBits(decoding.wire.flags) <= 2
        => decoding.result.ret.last_will.value.qos =
              Min(WillQoSBits(decoding.wire.flags), 1)

\* the remaining length a stream starts with, -1 when it has none
RemainingLength(input) == IF Len(input) < 1 THEN -1 ELSE input[1]

\* C32: PingReq::read_from succeeds exactly when the control byte has the type
\* 12 and the reserved bits 0 and the remaining length is 0; a wrong type is
\* reported as InvalidControlPacketType
C32_PingReq ==
    Returned =>
        /\ decoding.result.err = "none" <=>
              /\ decoding.control_byte \div 16 = 12
              /\ decoding.control_byte % 16 = 0
              /\ RemainingLength(decoding.stream) = 0
        /\ decoding.control_byte \div 16 # 12 =>
              decoding.result.err = "InvalidControlPacketType"

\* a PingReq with the control byte 0xC0 and the remaining length 0 is read
C32_Witness ==
    /\ Returned
    /\ decoding.control_byte = 192
    /\ decoding.stream = <<0>>
    /\ decoding.result.err = "none"

\* the payload of the packet is a packet id and whole fields
WholeFields(w) == Len(w.packet_id) = 2 /\ w.trailing = <<>>

\* one or more filters, none of them empty
ValidFilters(filters) ==
    /\ Len(filters) >= 1
    /\ \A i \in 1..Len(filters) : filters[i] # <<>>

\* C31: Unsubscribe::read_from returns the packet id and the topic filters of the
\* wire, in their order, exactly when the control byte has the type 10 and the
\* flags 0010 and the payload holds one or more filters that are not empty; a
\* wrong type gives InvalidControlPacketType, wrong flags give
\* InvalidReservedBits, no filter or an empty filter gives InvalidProtocol
C31_Unsubscribe ==
    Returned /\ WholeFields(decoding.wire) =>
        LET w == decoding.wire
            r == decoding.result
        IN  /\ r.err = "none" <=>
                  /\ w.control_byte \div 16 = 10
                  /\ w.control_byte % 16 = 2
                  /\ ValidFilters(w.filters)
            /\ r.err = "none" =>
                  /\ r.ret.packet_id = w.packet_id[1] * 256 + w.packet_id[2]
                  /\ r.ret.topic_filters = w.filters
            /\ w.control_byte \div 16 # 10 => r.err = "InvalidControlPacketType"
            /\ w.control_byte \div 16 = 10 /\ w.control_byte % 16 # 2 =>
                  r.err = "InvalidReservedBits"
            /\ w.control_byte = 162 /\ ~ValidFilters(w.filters) =>
                  r.err = "InvalidProtocol"

\* an Unsubscribe with the packet id 258 and two filters is read
C31_Witness ==
    /\ Returned
    /\ WholeFields(decoding.wire)
    /\ decoding.result.err = "none"
    /\ decoding.result.ret.packet_id = 258
    /\ decoding.result.ret.topic_filters = <<<<97>>, <<98, 47, 99>>>>

\* C39: Unsubscribe::read_from never returns Ok for a packet whose payload has,
\* after its valid filters, bytes that are no whole valid field, nor for a packet
\* too short for the packet id
C39_UnsubscribeMalformed ==
    Returned /\ ~WholeFields(decoding.wire) => decoding.result.err # "none"

\* the session that holds the transport of c is marked connected
Registered(c) ==
    \E id \in ClientIds :
        /\ sessions[id] # NoSession
        /\ sessions[id].connected
        /\ sessions[id].transport = c

\* C33: no session stays marked connected after its connection thread has
\* ended: the thread hands every session that new_session registered for it to
\* the disconnect of the clients manager, also when the write of the Connack fails
C33_SessionsDisconnected == \A c \in Conns : pc[c] = "done" => ~Registered(c)

\* the transport of c was taken over and its thread has reached its disconnect
\* step
TakenOverLeaves(c) == c \in taken_over /\ pc[c] = "disconnect"

Dispatching(w) == Running(w, "send", "start")

\* C35: when a publish-dispatch job calls client_do, the clients manager holds a
\* session for the client the topic handler emitted the Message for, also while
\* a clean-session client is disconnected
C35_DispatchTargetExists ==
    \A w \in Workers : Dispatching(w) => sessions[worker[w].id] # NoSession

\* every job of the pool has run
JobsDone == queue = <<>> /\ \A w \in Workers : worker[w] = Idle

\* the client of connection 1 sent the packets a and b, in this order, and both
\* were answered: the packet id of a read is its place among the reads
Answered(a, b) ==
    /\ \E i \in 1..Len(out[1]) : <<1, i>> \in Written(a, 1)
    /\ \E i \in 1..Len(out[1]) : <<1, i>> \in Written(b, 2)

\* the client of connection 1 is subscribed to the filter of SpecSubs
SubscribedTo(filter) == subscribers[filter]["x"] >= 0

\* C36: the subscription changes of a client take effect in the order it sent
\* them: after Subscribe(F) then Unsubscribe(F), once both jobs have run, the
\* client is not subscribed to F, and after Unsubscribe(F) then Subscribe(F) it is
C36_SubscriptionOrder ==
    JobsDone =>
        /\ Answered("Suback", "Unsuback") => ~SubscribedTo(<<"t", "#">>)
        /\ Answered("Unsuback", "Suback") => SubscribedTo(<<"t", "#">>)

\* worker w goes from the Puback of handle_publish on to broadcast_publish
FansOut(w) == StartsPublish(w) => worker'[w] # Idle

\* C37: every Publish read from a connected client is broadcast to the
\* subscribers matching its topic, also when the session of the publisher was
\* removed before the job runs: a Puback that cannot be sent does not keep a
\* QoS 1 publish from its fan-out
C37_PublishFansOut == [][\A w \in Workers : FansOut(w)]_vars

\* worker w runs handle_publish
InHandlePublish(w) == worker[w].kind = "publish"

\* C38: every handle_publish job finishes: a worker that waits in
\* broadcast_publish for its dispatcher thread, which submits its jobs to the
\* same pool, does not wait forever, also when all workers are in
\* broadcast_publish at once and the queue is full
C38_HandlePublishFinishes == \A w \in Workers : InHandlePublish(w) ~> worker[w] = Idle
====
